---- MODULE Spec2Model ----
(***************************************************************************)
(* Skill-gap analysis of Ascend: SkillComparator (normalisation, fuzzy     *)
(* matching, match percentage), SkillExtractor (vocabulary matching) and   *)
(* SkillGapAnalyzer.analyze() (grouping, per-role analysis, cross-role     *)
(* aggregation).                                                           *)
(*                                                                         *)
(* Python strings are TLA+ strings; the operators below take them apart    *)
(* into sequences of one-character strings and put them together again.    *)
(***************************************************************************)
EXTENDS Integers, Sequences, FiniteSets, TLC

VARIABLES
    pc,             \* position of the operation under analysis
    skill,          \* the string normalize_skill is applied to
    applied,        \* number of applications of normalize_skill so far
    skill1,         \* skills_match: first argument
    skill2,         \* skills_match: second argument
    resume_skills,  \* find_matching_skills / analyze: the resume's skills
    job_skills,     \* find_matching_skills: the job's skills
    matched_skills, \* calculate_match_percentage: the matched list
    total_required_skills, \* calculate_match_percentage: second argument
    ret,            \* value returned by the operation
    job_postings,   \* analyze: the JobPosting objects (mutable)
    job_roles,      \* analyze: the recommended roles
    jobs_by_role,   \* analyze: its local jobs_by_role, as posting indices
    extract_calls,  \* history: extract_skills runs per posting
    write_calls,    \* history: assignments to required_skills per posting
    calls,          \* number of analyze() calls made so far
    lines,          \* resume parser: the lines handed to a parsing step
    pages,          \* resume parser: the glyphs of each page of the PDF
    input_text,     \* extract_skills: the text searched for vocabulary terms
    missing_skills, \* identify_quick_wins: the skills missing from the resume
    frequency,      \* identify_quick_wins: its skill_frequency argument
    hash_seed,      \* the string hash seed of the running Python process
    inv,            \* concurrent analyze() invocations: position and locals
    supplied,       \* history: the postings as the callers supplied them
    scan            \* parser loops step by step: function, loop, index, locals

normalizeVars == <<skill, applied>>
matchVars == <<skill1, skill2>>
findVars == <<job_skills>>
pctVars == <<matched_skills, total_required_skills>>
analyzeVars == <<job_postings, job_roles, jobs_by_role, extract_calls,
                 write_calls, calls>>

parserVars == <<lines, pages>>

extractVars == <<input_text>>

quickVars == <<missing_skills, frequency>>

hashVars == <<hash_seed>>

threadVars == <<inv, supplied>>

scanVars == <<scan>>

otherVars == <<extractVars, quickVars, hashVars, threadVars, scanVars>>

vars == <<pc, ret, resume_skills, normalizeVars, matchVars, findVars, pctVars,
          analyzeVars, parserVars, otherVars>>

NoRet == [kind |-> "none"]

-----------------------------------------------------------------------------
(* Bounds *)

MaxSkillLen == 3
MaxApply == 2
MaxJobSkills == 3
MaxMatched == 10
MaxTotal == 10
MaxPostings == 3
MaxCalls == 2
MaxUnique == 404
MaxRoleJobs == 4
MaxTrendPostings == 2
MaxLines == 4
MaxBody == 4
MaxEntryLines == 3
MaxGlyphs == 4
MaxDocLines == 3
MaxTokens == 2
MaxMissing == 2
MaxPlanPostings == 2
MaxSeed == 2
MaxDemandPostings == 5
MaxCoverageJobs == 3
MaxSharedPostings == 2
MaxScanLines == 3

-----------------------------------------------------------------------------
(* Strings as character sequences *)

\* a sequence given as a function, with its elements computed once
List(f) == f \o <<>>

\* a local variable of the source: F applied to the value v assigned to it
Let(v, F(_)) == F(v)

Chars(s) == List([i \in 1..Len(s) |-> SubSeq(s, i, i)])

RECURSIVE Join(_)
Join(cs) ==
    IF cs = <<>> THEN ""
    ELSE IF Len(cs) = 1 THEN cs[1]
    ELSE Join(SubSeq(cs, 1, Len(cs) \div 2))
             \o Join(SubSeq(cs, Len(cs) \div 2 + 1, Len(cs)))

LowerLetters == Chars("abcdefghijklmnopqrstuvwxyz")
UpperLetters == Chars("ABCDEFGHIJKLMNOPQRSTUVWXYZ")
Digits == Chars("0123456789")

Range(f) == {f[i] : i \in DOMAIN f}

Whitespace == {" ", "\t", "\n"}

IsSpace(c) == c \in Whitespace

\* str.lower() on one character
LowerOf == [c \in Range(UpperLetters) |->
               LowerLetters[CHOOSE i \in 1..26 : UpperLetters[i] = c]]

LowerChar(c) == IF c \in DOMAIN LowerOf THEN LowerOf[c] ELSE c

\* str.lower()
Lower(s) == Join([i \in 1..Len(s) |-> LowerChar(SubSeq(s, i, i))])

RECURSIVE LStrip(_)
LStrip(cs) ==
    IF cs # <<>> /\ IsSpace(Head(cs)) THEN LStrip(Tail(cs)) ELSE cs

RECURSIVE RStrip(_)
RStrip(cs) ==
    IF cs # <<>> /\ IsSpace(cs[Len(cs)])
    THEN RStrip(SubSeq(cs, 1, Len(cs) - 1))
    ELSE cs

\* str.strip()
Strip(cs) == RStrip(LStrip(cs))

\* re.sub(r'\s+', ' ', s)
RECURSIVE CollapseWhitespace(_)
CollapseWhitespace(cs) ==
    IF cs = <<>> THEN <<>>
    ELSE IF IsSpace(Head(cs))
         THEN <<" ">> \o CollapseWhitespace(LStrip(Tail(cs)))
         ELSE <<Head(cs)>> \o CollapseWhitespace(Tail(cs))

\* the characters [a-z0-9\s\+\#\.] that normalize_skill keeps
KeptChar(c) ==
    \/ c \in Range(LowerLetters)
    \/ c \in Range(Digits)
    \/ IsSpace(c)
    \/ c \in {"+", "#", "."}

\* re.sub(r'[^a-z0-9\s\+\#\.]', '', s)
RemoveSpecial(cs) == SelectSeq(cs, KeptChar)

\* s1 in s2 (Python substring test)
Contains(s2, s1) ==
    \E i \in 0..(Len(s2) - Len(s1)) : SubSeq(s2, i + 1, i + Len(s1)) = s1

-----------------------------------------------------------------------------
(* SkillComparator *)

SKILL_ALIASES ==
    << <<"js", "javascript">>, <<"ts", "typescript">>, <<"py", "python">>,
       <<"react.js", "react">>, <<"reactjs", "react">>, <<"vue.js", "vue">>,
       <<"node.js", "node">>, <<"nodejs", "node">>,
       <<"postgresql", "postgres">>, <<"mongo", "mongodb">>,
       <<"k8s", "kubernetes">>, <<"ci/cd", "cicd">>,
       <<"ml", "machine learning">>, <<"ai", "artificial intelligence">>,
       <<"nlp", "natural language processing">>,
       <<"aws", "amazon web services">>,
       <<"gcp", "google cloud platform">> >>

HasAlias(s) == \E i \in DOMAIN SKILL_ALIASES : SKILL_ALIASES[i][1] = s

Alias(s) ==
    SKILL_ALIASES[CHOOSE i \in DOMAIN SKILL_ALIASES : SKILL_ALIASES[i][1] = s][2]

normalize_skill(s) ==
    Let(Join(CollapseWhitespace(Strip(Chars(Lower(s))))), LAMBDA lowered :
    Let(IF HasAlias(lowered) THEN Alias(lowered) ELSE lowered, LAMBDA aliased :
        Join(RemoveSpecial(Chars(aliased)))))

-----------------------------------------------------------------------------
(* difflib.SequenceMatcher(None, a, b).ratio(), for sequences shorter than  *)
(* 200 elements (no junk heuristic applies below that length)              *)

\* a[i:i+k] == b[j:j+k], 0-based as in Python
CommonBlock(a, b, i, j, k) ==
    \A t \in 1..k : a[i + t] = b[j + t]

\* find_longest_match(alo, ahi, blo, bhi): the longest block common to
\* a[alo:ahi] and b[blo:bhi]; of the longest ones the one starting earliest
\* in a, and of those the one starting earliest in b.
find_longest_match(a, b, alo, ahi, blo, bhi) ==
    LET fits(k) == \E i \in alo..(ahi - k), j \in blo..(bhi - k) :
                        CommonBlock(a, b, i, j, k)
        sizes == {k \in 0..(ahi - alo) : k <= bhi - blo /\ fits(k)}
        size  == CHOOSE k \in sizes : \A k2 \in sizes : k2 <= k
        starts == {i \in alo..(ahi - size) :
                      \E j \in blo..(bhi - size) : CommonBlock(a, b, i, j, size)}
        besti == CHOOSE i \in starts : \A i2 \in starts : i <= i2
        bstarts == {j \in blo..(bhi - size) : CommonBlock(a, b, besti, j, size)}
        bestj == CHOOSE j \in bstarts : \A j2 \in bstarts : j <= j2
    IN  IF size = 0 THEN <<alo, blo, 0>> ELSE <<besti, bestj, size>>

\* sum of the sizes of get_matching_blocks(): the longest block, then the
\* same to its left and to its right
RECURSIVE matching_size(_, _, _, _, _, _)
matching_size(a, b, alo, ahi, blo, bhi) ==
    IF alo >= ahi \/ blo >= bhi THEN 0
    ELSE Let(find_longest_match(a, b, alo, ahi, blo, bhi), LAMBDA m :
             LET i == m[1]
                 j == m[2]
                 k == m[3]
             IN  IF k = 0 THEN 0
                 ELSE k + matching_size(a, b, alo, i, blo, j)
                        + matching_size(a, b, i + k, ahi, j + k, bhi))

\* ratio() = 2.0 * matches / (len(a) + len(b)), 1.0 for two empty strings;
\* kept as the exact fraction <<numerator, denominator>>
ratio(s1, s2) ==
    LET a == Chars(s1)
        b == Chars(s2)
        length == Len(a) + Len(b)
    IN  IF length = 0 THEN <<1, 1>>
        ELSE <<2 * matching_size(a, b, 0, Len(a), 0, Len(b)), length>>

\* self.similarity_threshold = 0.85, as the fraction 85/100
similarity_threshold == <<85, 100>>

\* x >= y for fractions with positive denominators
FracGeq(x, y) == x[1] * y[2] >= y[1] * x[2]

skills_match(s1, s2) ==
    Let(normalize_skill(s1), LAMBDA norm1 :
    Let(normalize_skill(s2), LAMBDA norm2 :
        \/ norm1 = norm2
        \/ FracGeq(ratio(norm1, norm2), similarity_threshold)
        \/ /\ \/ Contains(Chars(norm2), Chars(norm1))
              \/ Contains(Chars(norm1), Chars(norm2))
           /\ Len(norm1) > 3
           /\ Len(norm2) > 3))

\* list(dict.fromkeys(xs)): duplicates removed, first occurrences kept
RECURSIVE Dedupe(_)
Dedupe(xs) ==
    IF xs = <<>> THEN <<>>
    ELSE LET init == Dedupe(SubSeq(xs, 1, Len(xs) - 1))
             last == xs[Len(xs)]
         IN  IF \E i \in DOMAIN init : init[i] = last
             THEN init
             ELSE Append(init, last)

\* index of the first resume skill that the inner loop of
\* find_matching_skills finds matching job_skill, 0 when there is none; the
\* loop hands skills_match the already normalized strings
FirstMatch(resume_skills_normalized, job_skill) ==
    Let(normalize_skill(job_skill), LAMBDA job_skill_norm :
    Let({i \in DOMAIN resume_skills_normalized :
            skills_match(job_skill_norm, resume_skills_normalized[i])},
        LAMBDA hits :
            IF hits = {} THEN 0
            ELSE CHOOSE i \in hits : \A i2 \in hits : i <= i2))

\* find_matching_skills with the bug of never setting found_match
find_matching_skills_NoFoundFlag(resume, jobs) ==
    Let(List([i \in DOMAIN resume |-> normalize_skill(resume[i])]),
        LAMBDA resume_skills_normalized :
    Let(List([j \in DOMAIN jobs |->
                 FirstMatch(resume_skills_normalized, jobs[j])]),
        LAMBDA first :
    Let(SelectSeq(first, LAMBDA i : i # 0), LAMBDA found :
        [matched |-> Dedupe([k \in DOMAIN found |-> resume[found[k]]]),
         missing |-> Dedupe(jobs)])))

\* find_matching_skills(resume_skills, job_skills) -> (matched, missing)
find_matching_skills(resume, jobs) ==
    Let(List([i \in DOMAIN resume |-> normalize_skill(resume[i])]),
        LAMBDA resume_skills_normalized :
    Let(List([j \in DOMAIN jobs |->
                 FirstMatch(resume_skills_normalized, jobs[j])]),
        LAMBDA first :
    Let(SelectSeq(first, LAMBDA i : i # 0), LAMBDA found :
    Let(SelectSeq([j \in DOMAIN jobs |-> j], LAMBDA j : first[j] = 0),
        LAMBDA notfound :
        [matched |-> Dedupe([k \in DOMAIN found |-> resume[found[k]]]),
         missing |-> Dedupe([k \in DOMAIN notfound |-> jobs[notfound[k]]])]))))

\* calculate_match_percentage without the cap at 100
calculate_match_percentage_NoCap(matched, total) ==
    IF total = 0 THEN <<100, 1>> ELSE <<Len(matched) * 100, total>>

\* calculate_match_percentage(matched_skills, total_required_skills), as an
\* exact fraction <<numerator, denominator>> (the float rounding of the
\* division is not represented)
calculate_match_percentage(matched, total) ==
    IF total = 0 THEN <<100, 1>>
    ELSE LET match_pct == <<Len(matched) * 100, total>>
         IN  IF FracGeq(match_pct, <<100, 1>>) THEN <<100, 1>> ELSE match_pct

-----------------------------------------------------------------------------
(* SkillExtractor *)

TECHNICAL_SKILLS ==
    {"python", "java", "javascript", "typescript", "c++", "c#", "ruby",
     "php", "swift", "kotlin", "go", "rust", "scala", "r", "matlab",
     "react", "angular", "vue", "django", "flask", "spring", "laravel",
     "express", "fastapi", "next.js", "nuxt.js", ".net", "asp.net",
     "sql", "mysql", "postgresql", "mongodb", "redis", "elasticsearch",
     "oracle", "sql server", "dynamodb", "cassandra", "neo4j",
     "aws", "azure", "gcp", "docker", "kubernetes", "jenkins", "gitlab",
     "terraform", "ansible", "ci/cd", "github actions",
     "machine learning", "deep learning", "tensorflow", "pytorch",
     "scikit-learn", "keras", "nlp", "computer vision", "llm",
     "git", "jira", "confluence", "figma", "adobe xd", "postman",
     "slack", "tableau", "power bi", "excel", "spark", "hadoop",
     "agile", "scrum", "kanban", "devops", "microservices", "rest api",
     "graphql", "oauth", "jwt", "tdd", "bdd"}

SOFT_SKILLS ==
    {"leadership", "communication", "teamwork", "problem solving",
     "critical thinking", "time management", "adaptability",
     "creativity", "collaboration", "mentoring", "presentation skills"}

\* \w of the re module
IsWordChar(c) ==
    \/ c \in Range(LowerLetters)
    \/ c \in Range(UpperLetters)
    \/ c \in Range(Digits)
    \/ c = "_"

\* \b at offset p of text (0 <= p <= Len(text)): exactly one of the
\* characters before and after the offset is a word character
WordBoundary(text, p) ==
    LET before == p >= 1 /\ IsWordChar(text[p])
        after  == p < Len(text) /\ IsWordChar(text[p + 1])
    IN  before # after

\* _skill_in_text: re.search(r'\b' + re.escape(skill) + r'\b', text)
skill_in_text(term, text) ==
    LET pattern == Chars(term)
        n  == Len(pattern)
    IN  \E i \in 0..(Len(text) - n) :
            /\ SubSeq(text, i + 1, i + n) = pattern
            /\ WordBoundary(text, i)
            /\ WordBoundary(text, i + n)

\* the characters of the vocabulary and of normalized skills in code-point
\* order, for comparing strings as sorted() does
CharOrder == Chars(" #+-./0123456789abcdefghijklmnopqrstuvwxyz")

Ord(c) == CHOOSE i \in DOMAIN CharOrder : CharOrder[i] = c

\* a < b for Python strings
RECURSIVE StrLess(_, _)
StrLess(a, b) ==
    IF b = <<>> THEN FALSE
    ELSE IF a = <<>> THEN TRUE
    ELSE IF Head(a) = Head(b) THEN StrLess(Tail(a), Tail(b))
    ELSE Ord(Head(a)) < Ord(Head(b))

\* sorted(list(found_skills))
RECURSIVE Sorted(_)
Sorted(S) ==
    IF S = {} THEN <<>>
    ELSE LET least == CHOOSE x \in S :
                          \A y \in S \ {x} : StrLess(Chars(x), Chars(y))
         IN  <<least>> \o Sorted(S \ {least})

\* extract_skills(text) with self.nlp = None (spaCy model not installed)
extract_skills(text) ==
    IF text = "" THEN <<>>
    ELSE LET text_lower == Chars(Lower(text))
         IN  Sorted({sk \in TECHNICAL_SKILLS \cup SOFT_SKILLS :
                        skill_in_text(sk, text_lower)})

-----------------------------------------------------------------------------
(* SkillComparator.prioritize_missing_skills *)

\* dict.get(key, 0) on a Counter kept as a function
CounterGet(counter, key) ==
    IF key \in DOMAIN counter THEN counter[key] ELSE 0

\* "high" / "medium" / "low" from freq_pct = freq / total_jobs * 100
Priority(freq_pct) ==
    IF FracGeq(freq_pct, <<60, 1>>) THEN "high"
    ELSE IF FracGeq(freq_pct, <<30, 1>>) THEN "medium"
    ELSE "low"

\* list.sort(key=lambda x: x[2], reverse=True): stable, largest freq_pct first
RECURSIVE SortByFreqDesc(_)
SortByFreqDesc(xs) ==
    IF xs = <<>> THEN <<>>
    ELSE LET init == SortByFreqDesc(SubSeq(xs, 1, Len(xs) - 1))
             x == xs[Len(xs)]
             n == Cardinality({i \in DOMAIN init :
                                  FracGeq(init[i].freq_pct, x.freq_pct)})
         IN  SubSeq(init, 1, n) \o <<x>> \o SubSeq(init, n + 1, Len(init))

\* prioritize_missing_skills without the final sort
prioritize_missing_skills_Unsorted(missing, skill_frequency, total_jobs) ==
    LET entry(name) ==
            Let(CounterGet(skill_frequency, normalize_skill(name)), LAMBDA freq :
            Let(IF total_jobs > 0 THEN <<freq * 100, total_jobs>> ELSE <<0, 1>>,
                LAMBDA freq_pct :
                [skill_name |-> name,
                 priority |-> Priority(freq_pct),
                 freq_pct |-> freq_pct]))
    IN  List([i \in DOMAIN missing |-> entry(missing[i])])

prioritize_missing_skills(missing, skill_frequency, total_jobs) ==
    LET entry(name) ==
            Let(CounterGet(skill_frequency, normalize_skill(name)), LAMBDA freq :
            Let(IF total_jobs > 0 THEN <<freq * 100, total_jobs>> ELSE <<0, 1>>,
                LAMBDA freq_pct :
                [skill_name |-> name,
                 priority |-> Priority(freq_pct),
                 freq_pct |-> freq_pct]))
    IN  SortByFreqDesc(List([i \in DOMAIN missing |-> entry(missing[i])]))

-----------------------------------------------------------------------------
(* SkillGapAnalyzer *)

\* str.split(): the maximal runs of non-whitespace characters
RECURSIVE Split(_)
Split(cs) ==
    LET rest == LStrip(cs)
        spaces == {i \in DOMAIN rest : IsSpace(rest[i])}
        n == IF spaces = {} THEN Len(rest)
             ELSE (CHOOSE i \in spaces : \A i2 \in spaces : i <= i2) - 1
    IN  IF rest = <<>> THEN <<>>
        ELSE <<SubSeq(rest, 1, n)>> \o Split(SubSeq(rest, n + 1, Len(rest)))

\* the test of line 144: some word of the role longer than 3 characters
\* occurs in the lower-cased job title
RoleMatchesTitle(role, title) ==
    LET job_title_lower == Chars(Lower(title))
        role_keywords == Split(Chars(Lower(role)))
    IN  \E k \in DOMAIN role_keywords :
            /\ Len(role_keywords[k]) > 3
            /\ Contains(job_title_lower, role_keywords[k])

\* AssignedRole without the break: the last matching role keeps the posting
AssignedRole_NoBreak(title, roles) ==
    LET matching == {r \in DOMAIN roles : RoleMatchesTitle(roles[r], title)}
    IN  IF matching = {} THEN 0
        ELSE CHOOSE r \in matching : \A r2 \in matching : r >= r2

\* index in job_roles of the role a title is assigned to (the inner loop
\* breaks at the first matching role), 0 when no role matches
AssignedRole(title, roles) ==
    LET matching == {r \in DOMAIN roles : RoleMatchesTitle(roles[r], title)}
    IN  IF matching = {} THEN 0
        ELSE CHOOSE r \in matching : \A r2 \in matching : r <= r2

\* _group_jobs_by_role: role name -> indices of the postings appended to
\* jobs_by_role[role], in posting order (a role without postings maps to the
\* empty list, which is what jobs_by_role.get(role, []) yields)
group_jobs_by_role(postings, roles) ==
    LET assigned == List([p \in DOMAIN postings |->
                             AssignedRole(postings[p].title, roles)])
    IN  [role \in Range(roles) |->
            SelectSeq([p \in DOMAIN postings |-> p],
                      LAMBDA p : assigned[p] # 0 /\ roles[assigned[p]] = role)]

\* job.required_skills = skills adding to the list instead
AssignSkills_Extend(job, skills) ==
    [job EXCEPT !.required_skills = @ \o skills]

\* job.required_skills = skills (line 125)
AssignSkills(job, skills) ==
    [job EXCEPT !.required_skills = skills]

\* _extract_job_skills on one posting: extraction only if required_skills
\* is empty
ExtractOne(job) ==
    IF job.required_skills = <<>>
    THEN [job EXCEPT !.required_skills = extract_skills(job.description)]
    ELSE job

RECURSIVE Flatten(_)
Flatten(lists) ==
    IF lists = <<>> THEN <<>> ELSE Head(lists) \o Flatten(Tail(lists))

\* round(x, 1) in tenths, for x = num / den >= 0; an exact tie goes to the
\* even neighbour
RoundTenths(num, den) ==
    LET q == (10 * num) \div den
        r == (10 * num) % den
    IN  IF 2 * r < den THEN q
        ELSE IF 2 * r > den THEN q + 1
        ELSE IF q % 2 = 0 THEN q ELSE q + 1

\* round() of a float computed from floats: at a decimal tie the binary
\* value of the operand lies just above or just below the tie, so either
\* neighbour can result
RoundTenthsOfFloat(num, den) ==
    LET q == (10 * num) \div den
        r == (10 * num) % den
    IN  IF 2 * r = den THEN {q, q + 1} ELSE {RoundTenths(num, den)}

Readiness(match_pct) ==
    IF FracGeq(match_pct, <<80, 1>>) THEN "Ready now"
    ELSE IF FracGeq(match_pct, <<60, 1>>) THEN "1-2 months"
    ELSE IF FracGeq(match_pct, <<40, 1>>) THEN "3-4 months"
    ELSE "6+ months"

\* the metrics of _analyze_role (lines 180 and 223-240): match_pct from the
\* matched skills and the number of unique required skills, the readiness
\* bucket taken from match_pct, and match_percentage = round(match_pct, 1)
\* in tenths
match_and_readiness(matched, total_required) ==
    Let(calculate_match_percentage(matched, total_required), LAMBDA match_pct :
        [match_percentage |-> RoundTenths(match_pct[1], match_pct[2]),
         estimated_readiness |-> Readiness(match_pct)])

\* _analyze_role(role, resume_skills, role_jobs); match_percentage is kept in
\* tenths of a percent.  The fields category, estimated_learning_time,
\* emerging_skills, skill_coverage_score and top_skills_to_learn are
\* functions of the fields kept here and are left out.
analyze_role(role, resume, role_jobs) ==
    Let(Flatten([j \in DOMAIN role_jobs |-> role_jobs[j].required_skills]),
        LAMBDA all_required_skills :
    Let(List([i \in DOMAIN all_required_skills |->
                 normalize_skill(all_required_skills[i])]),
        LAMBDA norms :
    Let([key \in Range(norms) |->
            Cardinality({i \in DOMAIN norms : norms[i] = key})],
        LAMBDA skill_frequency :
    Let(SelectSeq([i \in DOMAIN norms |-> i],
                  LAMBDA i : \A i2 \in 1..(i - 1) : norms[i2] # norms[i]),
        LAMBDA firsts :
    Let(List([k \in DOMAIN firsts |-> all_required_skills[firsts[k]]]),
        LAMBDA unique_required :
    Let(find_matching_skills(resume, unique_required), LAMBDA mm :
    Let(match_and_readiness(mm.matched, Len(unique_required)),
        LAMBDA metrics :
    Let(prioritize_missing_skills(mm.missing, skill_frequency, Len(role_jobs)),
        LAMBDA prioritized_missing :
    Let(List([i \in DOMAIN prioritized_missing |->
            [skill_name |-> prioritized_missing[i].skill_name,
             found_in_jobs_count |->
                 CounterGet(skill_frequency,
                            normalize_skill(prioritized_missing[i].skill_name)),
             priority |-> prioritized_missing[i].priority]]),
        LAMBDA skill_gaps :
        [job_role |-> role,
         jobs_analyzed |-> Len(role_jobs),
         matched_skills |-> mm.matched,
         missing_skills |-> skill_gaps,
         match_percentage |-> metrics.match_percentage,
         estimated_readiness |-> metrics.estimated_readiness])))))))))

\* _find_common_gaps testing the raw skill name, not its normalized form,
\* against the common keys
find_common_gaps_RawNames(role_analyses) ==
    IF role_analyses = <<>> THEN <<>>
    ELSE
        Let(List([a \in DOMAIN role_analyses |->
                {normalize_skill(role_analyses[a].missing_skills[i].skill_name) :
                    i \in DOMAIN role_analyses[a].missing_skills}]),
            LAMBDA missing_by_role :
        Let({key \in missing_by_role[1] :
                \A a \in DOMAIN missing_by_role : key \in missing_by_role[a]},
            LAMBDA common :
        Let(Flatten([a \in DOMAIN role_analyses |->
                        role_analyses[a].missing_skills]),
            LAMBDA all_gaps :
        Let(List([i \in DOMAIN all_gaps |-> all_gaps[i].skill_name]),
            LAMBDA names :
        Let(Dedupe(SelectSeq(names, LAMBDA name : name \in common)),
            LAMBDA common_skills :
            SubSeq(common_skills, 1,
                   IF Len(common_skills) < 10 THEN Len(common_skills)
                   ELSE 10))))))

\* _find_common_gaps(role_analyses)
find_common_gaps(role_analyses) ==
    IF role_analyses = <<>> THEN <<>>
    ELSE
        Let(List([a \in DOMAIN role_analyses |->
                {normalize_skill(role_analyses[a].missing_skills[i].skill_name) :
                    i \in DOMAIN role_analyses[a].missing_skills}]),
            LAMBDA missing_by_role :
        Let({key \in missing_by_role[1] :
                \A a \in DOMAIN missing_by_role : key \in missing_by_role[a]},
            LAMBDA common :
        Let(Flatten([a \in DOMAIN role_analyses |->
                        role_analyses[a].missing_skills]),
            LAMBDA all_gaps :
        Let(List([i \in DOMAIN all_gaps |-> all_gaps[i].skill_name]),
            LAMBDA names :
        Let(Dedupe(SelectSeq(names,
                             LAMBDA name : normalize_skill(name) \in common)),
            LAMBDA common_skills :
            SubSeq(common_skills, 1,
                   IF Len(common_skills) < 10 THEN Len(common_skills)
                   ELSE 10))))))

-----------------------------------------------------------------------------
(* SkillComparator.analyze_skill_trends *)

\* Counter(xs).most_common(n): the distinct elements with their counts,
\* largest count first, equal counts in order of first occurrence
most_common(xs, n) ==
    Let(Dedupe(xs), LAMBDA keys :
    Let(SortByFreqDesc(List([k \in DOMAIN keys |->
            [skill |-> keys[k],
             freq_pct |-> <<Cardinality({i \in DOMAIN xs : xs[i] = keys[k]}), 1>>]])),
        LAMBDA ordered :
        SubSeq(ordered, 1, IF Len(ordered) < n THEN Len(ordered) ELSE n)))

outdated_keywords ==
    {"jquery", "flash", "silverlight", "visual basic", "perl",
     "xml", "soap", "jsp", "struts"}

\* xs[:n]
Prefix(xs, n) == SubSeq(xs, 1, IF Len(xs) < n THEN Len(xs) ELSE n)

\* analyze_skill_trends keeping three declining skills, not five
analyze_skill_trends_Declining3(all_job_skills, resume) ==
    Let(List([i \in DOMAIN all_job_skills |->
                 normalize_skill(all_job_skills[i])]),
        LAMBDA job_norms :
    Let(List([i \in DOMAIN resume |-> normalize_skill(resume[i])]),
        LAMBDA resume_skills_norm :
    Let(SelectSeq(most_common(job_norms, 10),
                  LAMBDA e : /\ e.freq_pct[1] >= 5
                             /\ e.skill \notin Range(resume_skills_norm)),
        LAMBDA hot :
    Let(SelectSeq([i \in DOMAIN resume |-> i],
                  LAMBDA i : \/ resume_skills_norm[i] \in outdated_keywords
                             \/ resume_skills_norm[i] \notin Range(job_norms)),
        LAMBDA cold :
        [trending |->
             Prefix([k \in DOMAIN hot |->
                        all_job_skills[CHOOSE i \in DOMAIN job_norms :
                            /\ job_norms[i] = hot[k].skill
                            /\ \A i2 \in 1..(i - 1) :
                                   job_norms[i2] # hot[k].skill]], 5),
         declining |-> Prefix([k \in DOMAIN cold |-> resume[cold[k]]], 3)]))))

\* analyze_skill_trends listing skills however rarely they are mentioned
analyze_skill_trends_AnyCount(all_job_skills, resume) ==
    Let(List([i \in DOMAIN all_job_skills |->
                 normalize_skill(all_job_skills[i])]),
        LAMBDA job_norms :
    Let(List([i \in DOMAIN resume |-> normalize_skill(resume[i])]),
        LAMBDA resume_skills_norm :
    Let(SelectSeq(most_common(job_norms, 10),
                  LAMBDA e : e.skill \notin Range(resume_skills_norm)),
        LAMBDA hot :
    Let(SelectSeq([i \in DOMAIN resume |-> i],
                  LAMBDA i : \/ resume_skills_norm[i] \in outdated_keywords
                             \/ resume_skills_norm[i] \notin Range(job_norms)),
        LAMBDA cold :
        [trending |->
             Prefix([k \in DOMAIN hot |->
                        all_job_skills[CHOOSE i \in DOMAIN job_norms :
                            /\ job_norms[i] = hot[k].skill
                            /\ \A i2 \in 1..(i - 1) :
                                   job_norms[i2] # hot[k].skill]], 5),
         declining |-> Prefix([k \in DOMAIN cold |-> resume[cold[k]]], 5)]))))

\* analyze_skill_trends(all_job_skills, resume_skills)
\*   -> (trending[:5], declining[:5])
analyze_skill_trends(all_job_skills, resume) ==
    Let(List([i \in DOMAIN all_job_skills |->
                 normalize_skill(all_job_skills[i])]),
        LAMBDA job_norms :
    Let(List([i \in DOMAIN resume |-> normalize_skill(resume[i])]),
        LAMBDA resume_skills_norm :
    Let(SelectSeq(most_common(job_norms, 10),
                  LAMBDA e : /\ e.freq_pct[1] >= 5
                             /\ e.skill \notin Range(resume_skills_norm)),
        LAMBDA hot :
    Let(SelectSeq([i \in DOMAIN resume |-> i],
                  LAMBDA i : \/ resume_skills_norm[i] \in outdated_keywords
                             \/ resume_skills_norm[i] \notin Range(job_norms)),
        LAMBDA cold :
        [trending |->
             Prefix([k \in DOMAIN hot |->
                        all_job_skills[CHOOSE i \in DOMAIN job_norms :
                            /\ job_norms[i] = hot[k].skill
                            /\ \A i2 \in 1..(i - 1) :
                                   job_norms[i2] # hot[k].skill]], 5),
         declining |-> Prefix([k \in DOMAIN cold |-> resume[cold[k]]], 5)]))))

RECURSIVE Sum(_)
Sum(xs) == IF xs = <<>> THEN 0 ELSE Head(xs) + Sum(Tail(xs))

-----------------------------------------------------------------------------
(* enhanced_resume_parser: layout *)

Abs(x) == IF x < 0 THEN -x ELSE x

\* abs(char['top'] - current_line_top) >= 3
NewLine_AtThree(top, current_line_top) == Abs(top - current_line_top) >= 3

\* abs(char['top'] - current_line_top) > 3
NewLine(top, current_line_top) == Abs(top - current_line_top) > 3

\* the loop over the glyphs of one page from glyph i on; a line is the page
\* and the positions of its first and last glyph (line_chars), first is the
\* position of the first glyph of the current line
RECURSIVE PageLines(_, _, _, _, _)
PageLines(pg, chars, i, first, done) ==
    IF i > Len(chars)
    THEN Append(done, [page |-> pg, first |-> first, last |-> Len(chars)])
    ELSE IF NewLine(chars[i].top, chars[first].top)
    THEN PageLines(pg, chars, i + 1, i,
                   Append(done, [page |-> pg, first |-> first, last |-> i - 1]))
    ELSE PageLines(pg, chars, i + 1, first, done)

\* the lines of all pages from page pg on, in order
RECURSIVE line_groups_from(_, _)
line_groups_from(pgs, pg) ==
    IF pg > Len(pgs) THEN <<>>
    ELSE (IF pgs[pg] = <<>> THEN <<>>
          ELSE PageLines(pg, pgs[pg], 1, 1, <<>>))
             \o line_groups_from(pgs, pg + 1)

line_groups(pgs) == line_groups_from(pgs, 1)

\* "".join([c['text'] for c in line_chars])
RECURSIVE JoinText(_)
JoinText(chars) ==
    IF chars = <<>> THEN "" ELSE Head(chars).text \o JoinText(Tail(chars))

\* 'bold' in fontname.lower() or 'bd' in fontname.lower()
IsBoldFont(fontname) ==
    \/ Contains(Chars(Lower(fontname)), Chars("bold"))
    \/ Contains(Chars(Lower(fontname)), Chars("bd"))

\* the dictionary appended to all_lines for one line
LineOf(pgs, g) ==
    [text |-> Join(Strip(Chars(JoinText(SubSeq(pgs[g.page], g.first, g.last))))),
     font_size |-> pgs[g.page][g.first].size,
     bold |-> IsBoldFont(pgs[g.page][g.first].fontname)]

\* extract_with_layout() on the pages of the document
extract_with_layout(pgs) ==
    Let(line_groups(pgs), LAMBDA groups :
        List([k \in DOMAIN groups |-> LineOf(pgs, groups[k])]))

-----------------------------------------------------------------------------
(* enhanced_resume_parser: sections *)

\* Python's None
None == "None"

\* SECTION_KEYWORDS in dictionary order
SECTION_KEYWORDS ==
    << <<"experience", {"professional experience", "work experience",
                        "experience"}>>,
       <<"education", {"education", "academic background"}>>,
       <<"skills", {"skills", "technical skills", "core competencies"}>>,
       <<"projects", {"academic projects", "projects"}>>,
       <<"summary", {"summary", "professional summary", "objective"}>>,
       <<"certifications", {"certifications", "certificates", "licenses"}>> >>

\* classify_section(text): the first section type one of whose keywords
\* occurs in the lower-cased, stripped text
classify_section(text) ==
    Let(Strip(Chars(Lower(text))), LAMBDA text_lower :
    Let({t \in DOMAIN SECTION_KEYWORDS :
            \E keyword \in SECTION_KEYWORDS[t][2] :
                Contains(text_lower, Chars(keyword))},
        LAMBDA hits :
        IF hits = {} THEN None
        ELSE SECTION_KEYWORDS[CHOOSE t \in hits :
                                  \A t2 \in hits : t <= t2][1]))

\* sections[current_section] = current_content when both are set
Flush(st) ==
    IF st.current_section # None /\ st.current_content # <<>>
    THEN (st.current_section :> st.current_content) @@ st.sections
    ELSE st.sections

\* one iteration of the loop of segment_by_sections; font_size is in tenths
\* of a point
segment_step(st, line) ==
    IF line.text = "" THEN st
    ELSE Let(classify_section(line.text), LAMBDA classified :
             IF classified # None /\ (line.bold \/ line.font_size >= 105)
             THEN [sections |-> Flush(st),
                   current_section |-> classified,
                   current_content |-> <<>>]
             ELSE IF st.current_section # None
             THEN [st EXCEPT !.current_content = Append(@, line.text)]
             ELSE st)

RECURSIVE segment_loop(_, _)
segment_loop(ls, st) ==
    IF ls = <<>> THEN st
    ELSE segment_loop(Tail(ls), segment_step(st, Head(ls)))

\* segment_by_sections(lines): section tag -> list of line texts
segment_by_sections(ls) ==
    Flush(segment_loop(ls, [sections |-> <<>>,
                            current_section |-> None,
                            current_content |-> <<>>]))

-----------------------------------------------------------------------------
(* enhanced_resume_parser: skills *)

\* ASCII stand-ins for the non-ASCII characters the parser names:
\* U+2022 (bullet), U+2013 (en dash), U+2014 (em dash)
BULLET == "*"
EN_DASH == "~"
EM_DASH == "^"

\* str.lstrip(chars)
RECURSIVE LStripOf(_, _)
LStripOf(cs, chars) ==
    IF cs # <<>> /\ Head(cs) \in chars THEN LStripOf(Tail(cs), chars) ELSE cs

\* the position of the first occurrence of c in cs, 0 when there is none
IndexOf(cs, c) ==
    IF \E i \in DOMAIN cs : cs[i] = c
    THEN CHOOSE i \in DOMAIN cs : cs[i] = c /\ \A j \in 1..(i - 1) : cs[j] # c
    ELSE 0

\* str.split(sep) for a one-character separator
RECURSIVE SplitOn(_, _)
SplitOn(cs, sep) ==
    Let(IndexOf(cs, sep), LAMBDA i :
        IF i = 0 THEN <<cs>>
        ELSE <<SubSeq(cs, 1, i - 1)>> \o SplitOn(SubSeq(cs, i + 1, Len(cs)), sep))

\* [s.strip() for s in text.split(',') if s.strip()]
CommaItems(cs) ==
    Let(SplitOn(cs, ","), LAMBDA parts :
        SelectSeq(List([k \in DOMAIN parts |-> Join(Strip(parts[k]))]),
                  LAMBDA item : item # ""))

\* the skills one line adds
SkillsOfLine(line) ==
    Let(Strip(LStripOf(Chars(line), {BULLET, " ", "-"})), LAMBDA clean_line :
        IF IndexOf(clean_line, ":") # 0
        THEN CommaItems(Strip(SubSeq(clean_line, IndexOf(clean_line, ":") + 1,
                                     Len(clean_line))))
        ELSE IF IndexOf(clean_line, ",") # 0
        THEN CommaItems(clean_line)
        ELSE IF Len(clean_line) > 2 THEN <<Join(clean_line)>> ELSE <<>>)

RECURSIVE SkillsOfLines(_)
SkillsOfLines(ls) ==
    IF ls = <<>> THEN <<>>
    ELSE SkillsOfLine(Head(ls)) \o SkillsOfLines(Tail(ls))

\* parse_skills_section(lines)
parse_skills_section(ls) ==
    SelectSeq(SkillsOfLines(ls), LAMBDA sk : Len(sk) > 1)

-----------------------------------------------------------------------------
(* enhanced_resume_parser: experience *)

IsUpper(c) == c \in Range(UpperLetters)
IsLower(c) == c \in Range(LowerLetters)
IsDigit(c) == c \in Range(Digits)

\* the first position at or after p that holds no whitespace (\s* from p)
RECURSIVE SkipSpace(_, _)
SkipSpace(cs, p) ==
    IF p <= Len(cs) /\ IsSpace(cs[p]) THEN SkipSpace(cs, p + 1) ELSE p

\* [A-Z][a-z]{2}\s+\d{4} matched at p: the position after the match, else 0
MonthYearEnd(cs, p) ==
    IF /\ p >= 1 /\ p + 3 <= Len(cs)
       /\ IsUpper(cs[p]) /\ IsLower(cs[p + 1]) /\ IsLower(cs[p + 2])
       /\ IsSpace(cs[p + 3])
    THEN Let(SkipSpace(cs, p + 3), LAMBDA q :
             IF q + 3 <= Len(cs) /\ \A k \in q..(q + 3) : IsDigit(cs[k])
             THEN q + 4 ELSE 0)
    ELSE 0

\* re.search(r'[A-Z][a-z]{2}\s+\d{4}', line)
HasMonthYear(cs) == \E p \in DOMAIN cs : MonthYearEnd(cs, p) # 0

\* re.search(r'[A-Z][a-z]{2}\s+\d{4}\s*-\s*', line)
HasDateStart(cs) ==
    \E p \in DOMAIN cs :
        /\ MonthYearEnd(cs, p) # 0
        /\ SkipSpace(cs, MonthYearEnd(cs, p)) <= Len(cs)
        /\ cs[SkipSpace(cs, MonthYearEnd(cs, p))] = "-"

\* "Present" at p: the position after it, else 0
PresentEnd(cs, p) ==
    IF p >= 1 /\ p + 6 <= Len(cs) /\ SubSeq(cs, p, p + 6) = Chars("Present")
    THEN p + 7 ELSE 0

\* month-year, \s*, one of dashes, \s*, month-year (or Present when
\* allowed) matched at p: the position after the match, else 0
DateRangeEnd(cs, p, dashes, present) ==
    Let(MonthYearEnd(cs, p), LAMBDA e :
        IF e = 0 THEN 0
        ELSE Let(SkipSpace(cs, e), LAMBDA q :
                 IF q <= Len(cs) /\ cs[q] \in dashes
                 THEN Let(SkipSpace(cs, q + 1), LAMBDA r :
                          IF MonthYearEnd(cs, r) # 0 THEN MonthYearEnd(cs, r)
                          ELSE IF present THEN PresentEnd(cs, r)
                          ELSE 0)
                 ELSE 0))

\* re.search of the date-range pattern: [start, end) of the leftmost match,
\* start = 0 when there is none
DateSearch(cs, dashes, present) ==
    Let({p \in DOMAIN cs : DateRangeEnd(cs, p, dashes, present) # 0},
        LAMBDA starts :
        IF starts = {} THEN [start |-> 0, end |-> 0]
        ELSE Let(CHOOSE p \in starts : \A p2 \in starts : p <= p2,
                 LAMBDA p :
                 [start |-> p, end |-> DateRangeEnd(cs, p, dashes, present)]))

\* stand-ins for U+2019 and U+201C, U+201D
RSQUO == "$"
LDQUO == "{"
RDQUO == "}"

\* normalize_text(text)
normalize_text(cs) ==
    [k \in DOMAIN cs |->
        IF cs[k] \in {EN_DASH, EM_DASH} THEN "-"
        ELSE IF cs[k] = RSQUO THEN "'"
        ELSE IF cs[k] \in {LDQUO, RDQUO} THEN "\""
        ELSE cs[k]]

\* split_company_and_date(line): <<company, date_str>>
split_company_and_date(line) ==
    Let(DateSearch(line, {"-"}, TRUE), LAMBDA match :
        IF match.start # 0
        THEN <<Strip(SubSeq(line, 1, match.start - 1)),
               SubSeq(line, match.start, match.end - 1)>>
        ELSE <<line, <<>> >>)

\* [A-Z][a-z]+ matched at p: the position after the word, else 0
RECURSIVE SkipLower(_, _)
SkipLower(cs, p) ==
    IF p <= Len(cs) /\ IsLower(cs[p]) THEN SkipLower(cs, p + 1) ELSE p

CapWordEnd(cs, p) ==
    IF p >= 1 /\ p + 1 <= Len(cs) /\ IsUpper(cs[p]) /\ IsLower(cs[p + 1])
    THEN SkipLower(cs, p + 1) ELSE 0

\* [A-Z][a-z]+(?:\s+[A-Z][a-z]+)* matched at p, followed by a comma: the
\* position of the comma, else 0
RECURSIVE CapWordsComma(_, _)
CapWordsComma(cs, p) ==
    Let(CapWordEnd(cs, p), LAMBDA e :
        IF e = 0 \/ e > Len(cs) THEN 0
        ELSE IF cs[e] = "," THEN e
        ELSE IF IsSpace(cs[e]) THEN CapWordsComma(cs, SkipSpace(cs, e))
        ELSE 0)

\* the location pattern matched at p up to the end of the line
LocationAt(cs, p) ==
    \/ Let(CapWordsComma(cs, p), LAMBDA c :
           /\ c # 0
           /\ Let(SkipSpace(cs, c + 1), LAMBDA q :
                  /\ q + 1 = Len(cs)
                  /\ IsUpper(cs[q]) /\ IsUpper(cs[q + 1])))
    \/ Let(CapWordEnd(cs, p), LAMBDA e :
           /\ e # 0 /\ e <= Len(cs) /\ cs[e] = ","
           /\ Let(SkipSpace(cs, e + 1), LAMBDA q :
                  /\ CapWordEnd(cs, q) = Len(cs) + 1))

\* split_position_and_location(line): <<position, location>>
split_position_and_location(line) ==
    Let({p \in DOMAIN line : LocationAt(line, p)}, LAMBDA starts :
        IF starts = {} THEN <<line, <<>> >>
        ELSE Let(CHOOSE p \in starts : \A p2 \in starts : p <= p2,
                 LAMBDA p :
                 <<Strip(SubSeq(line, 1, p - 1)),
                   SubSeq(line, p, Len(line))>>))

\* line.startswith(BULLET) or line.startswith('-')
IsBulletLine(cs) == cs # <<>> /\ Head(cs) \in {BULLET, "-"}

\* '|' in line and re.search(r'[A-Z][a-z]{2}\s+\d{4}', line)
IsFormat2(cs) == IndexOf(cs, "|") # 0 /\ HasMonthYear(cs)

\* the Format 1 test of a line
IsFormat1(cs) == HasDateStart(cs) /\ ~(cs # <<>> /\ Head(cs) = BULLET)

\* descriptions with the pending bullet appended, when there is one
WithPending(st) ==
    IF st.current_bullet # <<>>
    THEN Append(st.descriptions, Join(Strip(st.current_bullet)))
    ELSE st.descriptions

\* one iteration of a bullet loop that does not break; a continuation line is
\* dropped
BulletStep_DropContinuation(st, desc_line) ==
    IF IsBulletLine(desc_line)
    THEN [descriptions |-> WithPending(st),
          current_bullet |-> Strip(LStripOf(desc_line, {BULLET, " ", "-"}))]
    ELSE st

\* one iteration of a bullet loop that does not break
BulletStep(st, desc_line) ==
    IF IsBulletLine(desc_line)
    THEN [descriptions |-> WithPending(st),
          current_bullet |-> Strip(LStripOf(desc_line, {BULLET, " ", "-"}))]
    ELSE IF st.current_bullet # <<>>
    THEN [st EXCEPT !.current_bullet = @ \o <<" ">> \o desc_line]
    ELSE st

\* the bullet loop of a Format 2 (format2) or Format 1 entry from line i on:
\* the position where it stops and the descriptions
RECURSIVE BulletLoop(_, _, _, _)
BulletLoop(ls, i, st, format2) ==
    IF i > Len(ls) THEN [i |-> i, descriptions |-> WithPending(st)]
    ELSE Let(Strip(Chars(ls[i])), LAMBDA desc_line :
             IF IF format2 THEN IsFormat2(desc_line) \/ desc_line = <<>>
                ELSE IsFormat1(desc_line)
             THEN [i |-> i, descriptions |-> WithPending(st)]
             ELSE BulletLoop(ls, i + 1, BulletStep(st, desc_line), format2))

NoBullets == [descriptions |-> <<>>, current_bullet |-> <<>>]

\* if company or position (an entry missing one of the two is kept)
HasBoth_Either(a, b) == a # "" \/ b # ""

\* if company and position / if institution and degree
HasBoth(a, b) == a # "" /\ b # ""

\* the header fields of a Format 2 line
Format2Header(line) ==
    Let(SplitOn(line, "|"), LAMBDA parts :
        IF Len(parts) >= 3
        THEN Let(Strip(parts[3]), LAMBDA location_date :
             Let(DateSearch(location_date, {"-", EN_DASH}, TRUE),
                 LAMBDA date_match :
                 [position |-> Join(Strip(parts[1])),
                  company |-> Join(Strip(parts[2])),
                  duration |->
                      IF date_match.start # 0
                      THEN Join(normalize_text(
                               SubSeq(location_date, date_match.start,
                                      date_match.end - 1)))
                      ELSE "",
                  location |->
                      IF date_match.start # 0
                      THEN Join(Strip(SubSeq(location_date, 1,
                                             date_match.start - 1)))
                      ELSE Join(location_date)]))
        ELSE [position |-> Join(Strip(parts[1])),
              company |-> Join(Strip(parts[2])),
              duration |-> "",
              location |-> ""])

\* Experience(...)
Experience(hdr, descriptions) ==
    [company |-> hdr.company, position |-> hdr.position,
     duration |-> hdr.duration, location |-> hdr.location,
     description |-> descriptions]

\* the header fields of a Format 1 entry whose company line is line and whose
\* position line, when there is one, is ls[i]
Format1Header(ls, line, i) ==
    Let(split_company_and_date(line), LAMBDA cd :
    Let(IF i <= Len(ls) THEN split_position_and_location(Strip(Chars(ls[i])))
        ELSE << <<>>, <<>> >>, LAMBDA pl :
        [company |-> Join(cd[1]),
         duration |-> Join(normalize_text(cd[2])),
         position |-> Join(pl[1]),
         location |-> Join(pl[2])]))

\* while i < len(lines) of parse_experience_section, i counted from 1
RECURSIVE ExperienceLoop(_, _, _)
RECURSIVE Format1Part(_, _, _, _)
Format1Part(ls, line, i, experiences) ==
    IF IsFormat1(line)
    THEN Let(Format1Header(ls, line, i + 1), LAMBDA hdr :
         Let(BulletLoop(ls, i + 2, NoBullets, FALSE), LAMBDA b :
             ExperienceLoop(ls, b.i,
                 IF HasBoth(hdr.company, hdr.position)
                 THEN Append(experiences, Experience(hdr, b.descriptions))
                 ELSE experiences)))
    ELSE ExperienceLoop(ls, i + 1, experiences)

ExperienceLoop(ls, i, experiences) ==
    IF i > Len(ls) THEN experiences
    ELSE Let(Strip(Chars(ls[i])), LAMBDA line :
             IF line = <<>> \/ IsBulletLine(line)
             THEN ExperienceLoop(ls, i + 1, experiences)
             ELSE IF IsFormat2(line)
             THEN Let(Format2Header(line), LAMBDA hdr :
                  Let(BulletLoop(ls, i + 1, NoBullets, TRUE), LAMBDA b :
                      IF HasBoth(hdr.company, hdr.position)
                      THEN ExperienceLoop(ls, b.i,
                               Append(experiences,
                                      Experience(hdr, b.descriptions)))
                      ELSE Format1Part(ls, line, b.i, experiences)))
             ELSE Format1Part(ls, line, i, experiences))

\* parse_experience_section(lines)
parse_experience_section(ls) == ExperienceLoop(ls, 1, <<>>)

-----------------------------------------------------------------------------
(* enhanced_resume_parser: education *)

\* str.find(sub) counted from 1, 0 when sub does not occur
FindSub(cs, sub) ==
    Let({i \in 1..(Len(cs) - Len(sub) + 1) :
            SubSeq(cs, i, i + Len(sub) - 1) = sub}, LAMBDA at :
        IF at = {} THEN 0 ELSE CHOOSE i \in at : \A j \in at : i <= j)

\* the start positions of the matches of \b\d{4}\b
YearStarts(cs) ==
    {p \in 1..(Len(cs) - 3) :
        /\ \A k \in p..(p + 3) : IsDigit(cs[k])
        /\ (p = 1 \/ ~IsWordChar(cs[p - 1]))
        /\ (p + 4 > Len(cs) \/ ~IsWordChar(cs[p + 4]))}

\* re.search(r'\b\d{4}\b', line)
HasYear(cs) == YearStarts(cs) # {}

\* re.findall(r'\b\d{4}\b', text)[-1], None when there is no match
LastYear(cs) ==
    IF YearStarts(cs) = {} THEN None
    ELSE Let(CHOOSE p \in YearStarts(cs) : \A q \in YearStarts(cs) : q <= p,
             LAMBDA p : Join(SubSeq(cs, p, p + 3)))

\* s.split(sep)[0].strip()
BeforeSep(cs, sep) ==
    IF FindSub(cs, sep) = 0 THEN Strip(cs)
    ELSE Strip(SubSeq(cs, 1, FindSub(cs, sep) - 1))

\* sep.join(s.split(sep)[1:])
AfterSep(cs, sep) ==
    IF FindSub(cs, sep) = 0 THEN <<>>
    ELSE SubSeq(cs, FindSub(cs, sep) + Len(sep), Len(cs))

\* degree and field of 'Degree in Field' / 'Degree, Field' / 'Degree'
DegreeField(cs) ==
    IF FindSub(cs, Chars(" in ")) # 0
    THEN [degree |-> Join(BeforeSep(cs, Chars(" in "))),
          field |-> Join(Strip(AfterSep(cs, Chars(" in "))))]
    ELSE IF FindSub(cs, <<",">>) # 0
    THEN [degree |-> Join(BeforeSep(cs, <<",">>)),
          field |-> Join(Strip(AfterSep(cs, <<",">>)))]
    ELSE [degree |-> Join(cs), field |-> None]

\* Education(...)
Education(institution, df, graduation_year) ==
    [institution |-> institution, degree |-> df.degree, field |-> df.field,
     graduation_year |-> graduation_year]

\* the institution of the second part of a pipe line
PipeInstitution(institution_with_dates) ==
    IF FindSub(institution_with_dates, Chars(" - ")) # 0
    THEN Join(BeforeSep(institution_with_dates, Chars(" - ")))
    ELSE IF FindSub(institution_with_dates, <<" ", EN_DASH, " ">>) # 0
    THEN Join(BeforeSep(institution_with_dates, <<" ", EN_DASH, " ">>))
    ELSE Join(institution_with_dates)

\* the separator the traditional format splits at
DashSep(line) ==
    IF FindSub(line, <<" ", EN_DASH, " ">>) # 0 THEN <<" ", EN_DASH, " ">>
    ELSE Chars(" - ")

\* degree and field of the line after an institution line
NextLineDegree(ls, i) ==
    IF i <= Len(ls)
    THEN Let(normalize_text(Strip(Chars(ls[i]))), LAMBDA degree_line :
             IF ~(degree_line # <<>> /\ Head(degree_line) = BULLET)
                /\ ~HasYear(degree_line)
             THEN DegreeField(degree_line)
             ELSE [degree |-> "", field |-> None])
    ELSE [degree |-> "", field |-> None]

\* while i < len(lines) of parse_education_section, i counted from 1
RECURSIVE EducationLoop(_, _, _)
EducationLoop(ls, i, educations) ==
    IF i > Len(ls) THEN educations
    ELSE Let(normalize_text(Strip(Chars(ls[i]))), LAMBDA line :
         IF line = <<>> THEN EducationLoop(ls, i + 1, educations)
         ELSE IF IndexOf(line, "|") # 0 /\ HasYear(line)
         THEN Let(Strip(SubSeq(line, IndexOf(line, "|") + 1, Len(line))),
                  LAMBDA institution_with_dates :
              Let(DegreeField(Strip(SubSeq(line, 1, IndexOf(line, "|") - 1))),
                  LAMBDA df :
              Let(PipeInstitution(institution_with_dates),
                  LAMBDA institution :
                  EducationLoop(ls, i + 1,
                      IF HasBoth(institution, df.degree)
                      THEN Append(educations,
                               Education(institution, df,
                                         LastYear(institution_with_dates)))
                      ELSE educations))))
         ELSE IF (FindSub(line, Chars(" - ")) # 0
                  \/ FindSub(line, <<" ", EN_DASH, " ">>) # 0)
                 /\ HasYear(line)
         THEN Let(Join(BeforeSep(line, DashSep(line))), LAMBDA institution :
              Let(NextLineDegree(ls, i + 1), LAMBDA df :
                  EducationLoop(ls, i + 2,
                      IF HasBoth(institution, df.degree)
                      THEN Append(educations,
                               Education(institution, df,
                                   LastYear(AfterSep(line, DashSep(line)))))
                      ELSE educations)))
         ELSE EducationLoop(ls, i + 1, educations))

\* parse_education_section(lines)
parse_education_section(ls) == EducationLoop(ls, 1, <<>>)

-----------------------------------------------------------------------------
(* enhanced_resume_parser: contact information *)

Letters == Range(LowerLetters) \cup Range(UpperLetters)

\* the first position at or after p that holds no character of chars
RECURSIVE RunEnd(_, _, _)
RunEnd(cs, p, chars) ==
    IF p <= Len(cs) /\ cs[p] \in chars THEN RunEnd(cs, p + 1, chars) ELSE p

\* sub occurs in cs at position p
StartsWithAt(cs, p, sub) ==
    p >= 1 /\ p + Len(sub) - 1 <= Len(cs)
        /\ SubSeq(cs, p, p + Len(sub) - 1) = sub

\* the largest element of a set of positions, 0 for the empty set
MaxOf(S) == IF S = {} THEN 0 ELSE CHOOSE x \in S : \A y \in S : y <= x

\* the smallest element of a set of positions, 0 for the empty set
MinOf(S) == IF S = {} THEN 0 ELSE CHOOSE x \in S : \A y \in S : x <= y

\* [A-Z|a-z]{2,}\b matched at t: the position after the longest match, else 0
TldEnd(cs, t) ==
    MaxOf({e \in (t + 2)..RunEnd(cs, t, Letters \cup {"|"}) :
              WordBoundary(cs, e - 1)})

\* the e-mail pattern matched at p: the position after the match, else 0
EmailEndAt(cs, p) ==
    IF WordBoundary(cs, p - 1)
       /\ cs[p] \in Letters \cup Range(Digits) \cup {".", "_", "%", "+", "-"}
    THEN Let(RunEnd(cs, p, Letters \cup Range(Digits)
                              \cup {".", "_", "%", "+", "-"}), LAMBDA at :
             IF at <= Len(cs) /\ cs[at] = "@"
             THEN Let(MaxOf({k \in (at + 2)..
                                (RunEnd(cs, at + 1, Letters \cup Range(Digits)
                                                       \cup {".", "-"}) - 1) :
                               cs[k] = "." /\ TldEnd(cs, k + 1) # 0}),
                      LAMBDA dot :
                      IF dot = 0 THEN 0 ELSE TldEnd(cs, dot + 1))
             ELSE 0)
    ELSE 0

\* extract_email(text)
extract_email(text) ==
    Let(Chars(text), LAMBDA cs :
    Let(MinOf({p \in DOMAIN cs : EmailEndAt(cs, p) # 0}), LAMBDA p :
        IF p = 0 THEN None ELSE Join(SubSeq(cs, p, EmailEndAt(cs, p) - 1))))

\* the phone pattern matched at p: the position after the match, else 0
PhoneEndAt(cs, p) ==
    Let(IF cs[p] \in {"+", "("} THEN p + 1 ELSE p, LAMBDA d :
        IF d <= Len(cs) /\ IsDigit(cs[d]) /\ cs[d] # "0"
        THEN Let(MaxOf({e \in (d + 9)..
                           (RunEnd(cs, d + 1, Range(Digits)
                                       \cup {" ", ".", "-", "(", ")"}) - 1) :
                          IsDigit(cs[e])}), LAMBDA e :
                 IF e = 0 THEN 0 ELSE e + 1)
        ELSE 0)

\* extract_phone(text)
extract_phone(text) ==
    Let(Chars(text), LAMBDA cs :
    Let(MinOf({p \in DOMAIN cs : PhoneEndAt(cs, p) # 0}), LAMBDA p :
        IF p = 0 THEN None
        ELSE Join(Strip(SubSeq(cs, p, PhoneEndAt(cs, p) - 1)))))

\* the LinkedIn pattern matched at p of the lower-cased text: the position
\* after the match, else 0
LinkedinEndAt(low, p) ==
    Let(IF StartsWithAt(low, p, Chars("https://")) THEN p + 8
        ELSE IF StartsWithAt(low, p, Chars("http://")) THEN p + 7
        ELSE p, LAMBDA q :
    Let(IF StartsWithAt(low, q, Chars("www.")) THEN q + 4 ELSE q, LAMBDA r :
        IF StartsWithAt(low, r, Chars("linkedin.com/in/"))
           /\ RunEnd(low, r + 16, Range(LowerLetters) \cup Range(Digits)
                                      \cup {"_", "-"}) > r + 16
        THEN RunEnd(low, r + 16, Range(LowerLetters) \cup Range(Digits)
                                     \cup {"_", "-"})
        ELSE 0))

\* the first '|' part that mentions linkedin and is longer than 8, else None
LinkedinPart(parts) ==
    Let(MinOf({k \in DOMAIN parts :
                  /\ Contains(Chars(Lower(Join(parts[k]))), Chars("linkedin"))
                  /\ Len(Strip(parts[k])) > 8}), LAMBDA k :
        IF k = 0 THEN None ELSE Join(Strip(parts[k])))

\* extract_linkedin(text)
extract_linkedin(text) ==
    Let(Chars(text), LAMBDA cs :
    Let(Chars(Lower(text)), LAMBDA low :
    Let(MinOf({p \in DOMAIN low : LinkedinEndAt(low, p) # 0}), LAMBDA p :
        IF p # 0 THEN Join(SubSeq(cs, p, LinkedinEndAt(low, p) - 1))
        ELSE IF Contains(low, Chars("linkedin"))
        THEN LinkedinPart(SplitOn(cs, "|"))
        ELSE None)))

\* ' '.join(texts)
RECURSIVE JoinSpace(_)
JoinSpace(texts) ==
    IF texts = <<>> THEN ""
    ELSE IF Len(texts) = 1 THEN texts[1]
    ELSE texts[1] \o " " \o JoinSpace(Tail(texts))

\* str.isupper()
IsUpperText(text) ==
    /\ \E k \in DOMAIN Chars(text) : IsUpper(Chars(text)[k])
    /\ \A k \in DOMAIN Chars(text) : ~IsLower(Chars(text)[k])

\* text.split('|')[0].strip()
FirstPart(text) == Join(Strip(SplitOn(Chars(text), "|")[1]))

\* font_size is in tenths of a point
IsNameLine(line) ==
    /\ line.text # ""
    /\ extract_email(line.text) = None
    /\ (line.font_size >= 110 \/ line.bold \/ IsUpperText(line.text))

IsLocationLine(line) ==
    /\ IndexOf(Chars(line.text), "|") # 0
    /\ \/ Contains(Chars(line.text), Chars("NY"))
       \/ Contains(Chars(line.text), Chars("MA"))
       \/ Contains(Chars(line.text), Chars("City"))

\* the first part of the first of the first five lines that satisfies Test
FirstOfFive(ls, hits) ==
    IF hits = {} THEN None ELSE FirstPart(ls[MinOf(hits)].text)

\* extract_contact_info(lines)
extract_contact_info(ls) ==
    Let(JoinSpace(List([k \in 1..(IF Len(ls) < 10 THEN Len(ls) ELSE 10) |->
                           ls[k].text])), LAMBDA contact_text :
        [name |-> FirstOfFive(ls, {k \in DOMAIN ls :
                                      k <= 5 /\ IsNameLine(ls[k])}),
         email |-> extract_email(contact_text),
         phone |-> extract_phone(contact_text),
         linkedin |-> extract_linkedin(contact_text),
         location |-> FirstOfFive(ls, {k \in DOMAIN ls :
                                          k <= 5 /\ IsLocationLine(ls[k])})])

-----------------------------------------------------------------------------
(* enhanced_resume_parser: projects and parse *)

\* one iteration of the loop of parse_projects_section
ProjectStep(st, text) ==
    Let(Strip(Chars(text)), LAMBDA line :
        IF IndexOf(line, "|") # 0 /\ ~(line # <<>> /\ Head(line) = BULLET)
        THEN [projects |->
                  IF st.current_project # <<>>
                  THEN Append(st.projects, JoinSpace(st.current_project))
                  ELSE st.projects,
              current_project |-> <<Join(line)>>]
        ELSE [st EXCEPT !.current_project = Append(@, Join(line))])

RECURSIVE ProjectLoop(_, _)
ProjectLoop(ls, st) ==
    IF ls = <<>> THEN st ELSE ProjectLoop(Tail(ls), ProjectStep(st, Head(ls)))

\* parse_projects_section(lines)
parse_projects_section(ls) ==
    Let(ProjectLoop(ls, [projects |-> <<>>, current_project |-> <<>>]),
        LAMBDA st :
        IF st.current_project # <<>>
        THEN Append(st.projects, JoinSpace(st.current_project))
        ELSE st.projects)

\* the exception a dictionary lookup without default raises
KeyError == "KeyError"

\* sections[key]
SectionGet_NoDefault(sections, key) ==
    IF key \in DOMAIN sections THEN sections[key] ELSE KeyError

\* sections.get(key, [])
SectionGet(sections, key) ==
    IF key \in DOMAIN sections THEN sections[key] ELSE <<>>

\* parse() from the extracted lines on: the ParsedResume, or raised when a
\* step raises
parse(ls) ==
    Let(extract_contact_info(ls), LAMBDA contact_info :
    Let(segment_by_sections(ls), LAMBDA sections :
        IF \E key \in {"skills", "experience", "education", "projects",
                        "certifications"} :
               SectionGet(sections, key) = KeyError
        THEN [raised |-> TRUE]
        ELSE [raised |-> FALSE,
              contact_info |-> contact_info,
              summary |-> IF "summary" \in DOMAIN sections
                          THEN JoinSpace(sections["summary"]) ELSE None,
              skills |-> parse_skills_section(SectionGet(sections, "skills")),
              experience |->
                  parse_experience_section(SectionGet(sections, "experience")),
              education |->
                  parse_education_section(SectionGet(sections, "education")),
              certifications |-> SectionGet(sections, "certifications"),
              projects |->
                  parse_projects_section(SectionGet(sections, "projects"))]))

-----------------------------------------------------------------------------
(* SkillComparator.identify_quick_wins / identify_long_term_goals *)

tool_keywords ==
    <<"git", "jira", "docker", "jenkins", "postman",
      "figma", "slack", "confluence", "tableau", "excel",
      "ci/cd", "agile", "scrum">>

complex_keywords ==
    <<"java", "c++", "scala", "rust", "go", "ruby",
      "spring", "django", "angular", "vue",
      "kubernetes", "terraform", "aws", "azure", "gcp",
      "machine learning", "deep learning", "data science",
      "microservices", "distributed systems">>

\* any(keyword in skill_norm for keyword in keywords)
AnyKeywordIn(keywords, skill_norm) ==
    \E k \in DOMAIN keywords : Contains(Chars(skill_norm), Chars(keywords[k]))

\* identify_quick_wins asking only for the frequency
identify_quick_wins_AnySkill(missing, skill_frequency) ==
    SelectSeq(missing, LAMBDA name :
        CounterGet(skill_frequency, normalize_skill(name)) >= 3)

identify_quick_wins(missing, skill_frequency) ==
    SelectSeq(missing, LAMBDA name :
        Let(normalize_skill(name), LAMBDA skill_norm :
            /\ CounterGet(skill_frequency, skill_norm) >= 3
            /\ AnyKeywordIn(tool_keywords, skill_norm)))

identify_long_term_goals(missing, skill_frequency) ==
    SelectSeq(missing, LAMBDA name :
        AnyKeywordIn(complex_keywords, normalize_skill(name)))

-----------------------------------------------------------------------------
(* enhanced_resume_parser: the scanning loops, one iteration at a time *)

\* the index after an iteration of a bullet loop that leaves a line which
\* is neither a bullet nor a continuation where it is
BulletIndex_StuckOnStray(st, desc_line, i) ==
    IF IsBulletLine(desc_line) \/ st.current_bullet # <<>> THEN i + 1 ELSE i

\* the index after an iteration of a bullet loop that does not break:
\* i += 1 in each of its three branches
BulletIndex(st, desc_line, i) == i + 1

NoHeader == [company |-> "", position |-> "", duration |-> "", location |-> ""]

\* the test that ends the bullet loop of a Format 2 (format2) or Format 1
\* entry at line i, or the end of the lines
BulletLoopEnds(ls, i, format2) ==
    IF i > Len(ls) THEN TRUE
    ELSE Let(Strip(Chars(ls[i])), LAMBDA desc_line :
             IF format2 THEN IsFormat2(desc_line) \/ desc_line = <<>>
             ELSE IsFormat1(desc_line))

\* lines 317-348 entered with the stripped line kept from the top of the
\* iteration: a Format 1 entry up to its bullet loop, or i += 1
Format1Entry(ls, sc, line) ==
    IF IsFormat1(line)
    THEN [sc EXCEPT !.where = "bullets1",
                    !.hdr = Format1Header(ls, line, sc.i + 1),
                    !.st = NoBullets,
                    !.i = @ + 2]
    ELSE [sc EXCEPT !.where = "outer", !.i = @ + 1]

\* one iteration of the while loop of parse_experience_section up to its
\* bullet loop (lines 246-280 and 317-329)
ExperienceIteration(ls, sc) ==
    Let(Strip(Chars(ls[sc.i])), LAMBDA line :
        IF line = <<>> \/ IsBulletLine(line)
        THEN [sc EXCEPT !.i = @ + 1]
        ELSE IF IsFormat2(line)
        THEN [sc EXCEPT !.where = "bullets2",
                        !.line = line,
                        !.hdr = Format2Header(line),
                        !.st = NoBullets,
                        !.i = @ + 1]
        ELSE Format1Entry(ls, [sc EXCEPT !.line = line], line))

\* one iteration of a bullet loop that does not break
BulletIteration(ls, sc) ==
    Let(Strip(Chars(ls[sc.i])), LAMBDA desc_line :
        [sc EXCEPT !.st = BulletStep(sc.st, desc_line),
                   !.i = BulletIndex(sc.st, desc_line, sc.i)])

\* the entry of the finished bullet loop appended when it has a company
\* and a position
WithEntry(sc) ==
    IF HasBoth(sc.hdr.company, sc.hdr.position)
    THEN Append(sc.out, Experience(sc.hdr, WithPending(sc.st)))
    ELSE sc.out

\* lines 302-315: after the bullet loop of a Format 2 entry, the entry is
\* appended and the iteration ends (continue), or the same line is tried as
\* Format 1
AfterFormat2Bullets(ls, sc) ==
    IF HasBoth(sc.hdr.company, sc.hdr.position)
    THEN [sc EXCEPT !.where = "outer", !.out = WithEntry(sc)]
    ELSE Format1Entry(ls, sc, sc.line)

\* lines 350-361: after the bullet loop of a Format 1 entry
AfterFormat1Bullets(ls, sc) ==
    [sc EXCEPT !.where = "outer", !.out = WithEntry(sc)]

\* one iteration of the while loop of parse_education_section
EducationIteration(ls, sc) ==
    Let(normalize_text(Strip(Chars(ls[sc.i]))), LAMBDA line :
        IF line = <<>> THEN [sc EXCEPT !.i = @ + 1]
        ELSE IF IndexOf(line, "|") # 0 /\ HasYear(line)
        THEN Let(Strip(SubSeq(line, IndexOf(line, "|") + 1, Len(line))),
                 LAMBDA institution_with_dates :
             Let(DegreeField(Strip(SubSeq(line, 1, IndexOf(line, "|") - 1))),
                 LAMBDA df :
             Let(PipeInstitution(institution_with_dates),
                 LAMBDA institution :
                 [sc EXCEPT
                     !.i = @ + 1,
                     !.out =
                         IF HasBoth(institution, df.degree)
                         THEN Append(@, Education(institution, df,
                                         LastYear(institution_with_dates)))
                         ELSE @])))
        ELSE IF (FindSub(line, Chars(" - ")) # 0
                 \/ FindSub(line, <<" ", EN_DASH, " ">>) # 0)
                /\ HasYear(line)
        THEN Let(Join(BeforeSep(line, DashSep(line))), LAMBDA institution :
             Let(NextLineDegree(ls, sc.i + 1), LAMBDA df :
                 [sc EXCEPT
                     !.i = @ + 2,
                     !.out =
                         IF HasBoth(institution, df.degree)
                         THEN Append(@, Education(institution, df,
                                    LastYear(AfterSep(line, DashSep(line)))))
                         ELSE @]))
        ELSE [sc EXCEPT !.i = @ + 1])

-----------------------------------------------------------------------------
(* Idle values of the variables an operation does not use *)

IdleNormalize == skill = "" /\ applied = 0
IdleMatch == skill1 = "" /\ skill2 = ""
IdleFind == job_skills = <<>>
IdlePct == matched_skills = <<>> /\ total_required_skills = 0
IdleAnalyze ==
    /\ job_postings = <<>>
    /\ job_roles = <<>>
    /\ jobs_by_role = <<>>
    /\ extract_calls = <<>>
    /\ write_calls = <<>>
    /\ calls = 0
IdleParser == lines = <<>> /\ pages = <<>>
IdleExtract == input_text = ""
IdleQuick == missing_skills = <<>> /\ frequency = <<>>
IdleHash == hash_seed = 0
IdleThreads == inv = <<>> /\ supplied = <<>>
IdleScan == scan = <<>>
IdleOther ==
    IdleExtract /\ IdleQuick /\ IdleHash /\ IdleThreads /\ IdleScan

-----------------------------------------------------------------------------
(* normalize_skill applied repeatedly to one skill string *)

NormAlphabet == {"j", "s", "J", "-", " "}

SkillStrings ==
    {Join(cs) : cs \in UNION {[1..n -> NormAlphabet] : n \in 0..MaxSkillLen}}

InitNormalize ==
    /\ pc = "start"
    /\ skill \in SkillStrings
    /\ applied = 0
    /\ ret = NoRet
    /\ IdleOther
    /\ resume_skills = <<>>
    /\ IdleMatch /\ IdleFind /\ IdlePct /\ IdleAnalyze /\ IdleParser

Normalize ==
    /\ applied < MaxApply
    /\ skill' = normalize_skill(skill)
    /\ applied' = applied + 1
    /\ pc' = "normalized"
    /\ UNCHANGED <<ret, resume_skills, matchVars, findVars, pctVars,
                   analyzeVars, parserVars, otherVars>>

NextNormalize == Normalize

SpecNormalize == InitNormalize /\ [][NextNormalize]_vars

\* C1: normalize_skill(normalize_skill(x)) = normalize_skill(x): once a
\* string has been normalized, normalizing it again leaves it unchanged.
C1_NormalizeIdempotent == [][applied >= 1 => skill' = skill]_vars

-----------------------------------------------------------------------------
(* skills_match evaluated in both argument orders *)

MatchSkills ==
    {"aaabaa", "abaababa", "React", "react native", "Git", "git", "GitHub",
     "JS", "javascript", "Java", "SQL", "MySQL", "kubernetes", "kubernets",
     "k8s", ""}

InitMatch ==
    /\ pc = "start"
    /\ skill1 \in MatchSkills
    /\ skill2 \in MatchSkills
    /\ ret = NoRet
    /\ IdleOther
    /\ resume_skills = <<>>
    /\ IdleNormalize /\ IdleFind /\ IdlePct /\ IdleAnalyze /\ IdleParser

Match ==
    /\ pc = "start"
    /\ ret' = [kind |-> "match",
               forward  |-> skills_match(skill1, skill2),
               backward |-> skills_match(skill2, skill1)]
    /\ pc' = "done"
    /\ UNCHANGED <<resume_skills, normalizeVars, matchVars, findVars,
                   pctVars, analyzeVars, parserVars, otherVars>>

NextMatch == Match

SpecMatch == InitMatch /\ [][NextMatch]_vars

\* C2: skills_match(a, b) and skills_match(b, a) return the same boolean.
C2_MatchSymmetric == ret.kind = "match" => ret.forward = ret.backward

-----------------------------------------------------------------------------
(* find_matching_skills on a resume list and a job list *)

ResumeLists ==
    { <<>>,
      <<"Python", "SQL", "Git">>,
      <<"JavaScript", "React">>,
      <<"Amazon Web Services", "python">> }

JobSkillNames == {"Python", "AWS", "git", "(JS)", "react native", "sql"}

JobSkillLists == UNION {[1..n -> JobSkillNames] : n \in 0..MaxJobSkills}

InitFind ==
    /\ pc = "start"
    /\ resume_skills \in ResumeLists
    /\ job_skills \in JobSkillLists
    /\ ret = NoRet
    /\ IdleOther
    /\ IdleNormalize /\ IdleMatch /\ IdlePct /\ IdleAnalyze /\ IdleParser

Find ==
    /\ pc = "start"
    /\ ret' = [kind |-> "find"] @@ find_matching_skills(resume_skills, job_skills)
    /\ pc' = "done"
    /\ UNCHANGED <<resume_skills, normalizeVars, matchVars, findVars,
                   pctVars, analyzeVars, parserVars, otherVars>>

NextFind == Find

SpecFind == InitFind /\ [][NextFind]_vars

\* C3: no element of matched has the same normalize_skill value as an
\* element of missing.
C3_MatchedMissingDisjoint ==
    ret.kind = "find" =>
        \A i \in DOMAIN ret.matched, j \in DOMAIN ret.missing :
            normalize_skill(ret.matched[i]) # normalize_skill(ret.missing[j])

C3_Witness ==
    /\ ret.kind = "find"
    /\ ret.matched # <<>>
    /\ ret.missing # <<>>

\* the resume skills matching job skill j by the public predicate on the
\* original strings
PublicHits(j) ==
    {i \in DOMAIN resume_skills : skills_match(job_skills[j], resume_skills[i])}

\* C4: a job skill j is in missing exactly when no resume skill r has
\* skills_match(j, r); otherwise the first such r is in matched; both lists
\* keep first-seen order without duplicates.
C4_FirstPublicMatch ==
    ret.kind = "find" =>
        LET idx == [j \in DOMAIN job_skills |-> j]
            found == SelectSeq(idx, LAMBDA j : PublicHits(j) # {})
            notfound == SelectSeq(idx, LAMBDA j : PublicHits(j) = {})
            first(j) == CHOOSE i \in PublicHits(j) :
                            \A i2 \in PublicHits(j) : i <= i2
        IN  /\ ret.matched =
                 Dedupe([k \in DOMAIN found |-> resume_skills[first(found[k])]])
            /\ ret.missing =
                 Dedupe([k \in DOMAIN notfound |-> job_skills[notfound[k]]])

-----------------------------------------------------------------------------
(* calculate_match_percentage on a matched list and a required count *)

InitPct ==
    /\ pc = "start"
    /\ \E n \in 0..MaxMatched :
          matched_skills = [i \in 1..n |-> "skill" \o ToString(i)]
    /\ total_required_skills \in 0..MaxTotal
    /\ ret = NoRet
    /\ IdleOther
    /\ resume_skills = <<>>
    /\ IdleNormalize /\ IdleMatch /\ IdleFind /\ IdleAnalyze /\ IdleParser

Pct ==
    /\ pc = "start"
    /\ ret' = [kind |-> "pct",
               value |-> calculate_match_percentage(matched_skills,
                                                    total_required_skills)]
    /\ pc' = "done"
    /\ UNCHANGED <<resume_skills, normalizeVars, matchVars, findVars,
                   pctVars, analyzeVars, parserVars, otherVars>>

NextPct == Pct

SpecPct == InitPct /\ [][NextPct]_vars

\* C5: the result is 100 when total is 0, min(100, 100 * len(matched) / total)
\* when total > 0, never above 100, and not below the result for any shorter
\* matched list with the same total.
C5_MatchPercentage ==
    ret.kind = "pct" =>
        LET n == Len(matched_skills)
            t == total_required_skills
            v == ret.value
        IN  /\ t = 0 => v[1] = 100 * v[2]
            /\ (t > 0 /\ n >= t) => v[1] = 100 * v[2]
            /\ (t > 0 /\ n < t) => v[1] * t = 100 * n * v[2]
            /\ v[1] <= 100 * v[2]
            /\ \A m \in 0..n :
                  FracGeq(v, calculate_match_percentage(
                                 SubSeq(matched_skills, 1, m), t))

C5_Witness ==
    /\ ret.kind = "pct"
    /\ total_required_skills > 0
    /\ Len(matched_skills) > total_required_skills

-----------------------------------------------------------------------------
(* the metrics of _analyze_role for a role with many unique required skills *)

\* the least number of unique required skills from which match_pct can lie
\* within 0.05 below a readiness threshold without reaching it
BoundaryTotal == 400

InitReadiness ==
    /\ pc = "start"
    /\ total_required_skills \in (1..MaxTotal) \cup (BoundaryTotal..MaxUnique)
    /\ \E n \in 0..total_required_skills :
          matched_skills = [i \in 1..n |-> "skill" \o ToString(i)]
    /\ ret = NoRet
    /\ IdleOther
    /\ resume_skills = <<>>
    /\ IdleNormalize /\ IdleMatch /\ IdleFind /\ IdleAnalyze /\ IdleParser

RoleMetrics ==
    /\ pc = "start"
    /\ ret' = [kind |-> "role"]
                 @@ match_and_readiness(matched_skills, total_required_skills)
    /\ pc' = "done"
    /\ UNCHANGED <<resume_skills, normalizeVars, matchVars, findVars,
                   pctVars, analyzeVars, parserVars, otherVars>>

NextReadiness == RoleMetrics

SpecReadiness == InitReadiness /\ [][NextReadiness]_vars

\* C12: estimated_readiness is 'Ready now' when match_percentage >= 80,
\* '1-2 months' when it is >= 60 and < 80, '3-4 months' when it is >= 40 and
\* < 60, and '6+ months' otherwise (match_percentage in tenths).
C12_ReadinessFromPercentage ==
    ret.kind = "role" =>
        ret.estimated_readiness =
            IF ret.match_percentage >= 800 THEN "Ready now"
            ELSE IF ret.match_percentage >= 600 THEN "1-2 months"
            ELSE IF ret.match_percentage >= 400 THEN "3-4 months"
            ELSE "6+ months"

-----------------------------------------------------------------------------
(* _analyze_role on the postings grouped under one role *)

RequiredSkillsCatalogue ==
    { <<>>,
      <<"Docker">>,
      <<"Docker", "AWS">>,
      <<"Go", "Docker", "AWS">>,
      <<"docker", "Docker">> }

InitRole ==
    /\ pc = "start"
    /\ \E n \in 1..MaxRoleJobs :
          \E skills \in [1..n -> RequiredSkillsCatalogue] :
              job_postings = [j \in 1..n |->
                                 [title |-> "Data Scientist",
                                  description |-> "",
                                  required_skills |-> skills[j]]]
    /\ resume_skills \in { <<>>, <<"AWS">> }
    /\ job_roles = <<>>
    /\ jobs_by_role = <<>>
    /\ extract_calls = <<>>
    /\ write_calls = <<>>
    /\ calls = 0
    /\ ret = NoRet
    /\ IdleOther
    /\ IdleNormalize /\ IdleMatch /\ IdleFind /\ IdlePct /\ IdleParser

AnalyzeRole ==
    /\ pc = "start"
    /\ ret' = [kind |-> "role_analysis"]
                 @@ analyze_role("Data Scientist", resume_skills, job_postings)
    /\ pc' = "done"
    /\ UNCHANGED <<resume_skills, normalizeVars, matchVars, findVars,
                   pctVars, analyzeVars, parserVars, otherVars>>

NextRole == AnalyzeRole

SpecRole == InitRole /\ [][NextRole]_vars

\* C13: the priority of a missing skill is high when found_in_jobs_count /
\* jobs_analyzed is at least 60%, medium when it is at least 30% and below
\* 60%, low otherwise; missing_skills is ordered by non-increasing ratio.
C13_PriorityFromRatio ==
    ret.kind = "role_analysis" =>
        /\ \A i \in DOMAIN ret.missing_skills :
              ret.missing_skills[i].priority =
                  IF 100 * ret.missing_skills[i].found_in_jobs_count
                         >= 60 * ret.jobs_analyzed THEN "high"
                  ELSE IF 100 * ret.missing_skills[i].found_in_jobs_count
                              >= 30 * ret.jobs_analyzed THEN "medium"
                  ELSE "low"
        /\ \A i, j \in DOMAIN ret.missing_skills :
              i < j => ret.missing_skills[i].found_in_jobs_count
                           >= ret.missing_skills[j].found_in_jobs_count

C13_Witness ==
    /\ ret.kind = "role_analysis"
    /\ {ret.missing_skills[i].priority : i \in DOMAIN ret.missing_skills}
           = {"high", "medium", "low"}
    /\ job_postings[1].required_skills # <<>>
    /\ job_postings[1].required_skills[1] # ret.missing_skills[1].skill_name

-----------------------------------------------------------------------------
(* analyze() called repeatedly on the same postings, roles and resume *)

PostingCatalogue ==
    { [title |-> "Data Scientist",
       description |-> "Python, SQL and Docker required",
       required_skills |-> <<>>],
      [title |-> "Senior SOFTWARE Developer",
       description |-> "Java with Docker and Git",
       required_skills |-> <<>>],
      [title |-> "Machine Learning Engineer",
       description |-> "",
       required_skills |-> <<"Docker", "Python", "AWS", "k8s", "Go", "R",
                             "Spark", "SQL", "TDD", "JWT", "LLM">>],
      [title |-> "Office Manager",
       description |-> "friendly person wanted",
       required_skills |-> <<>>] }

RolesCatalogue ==
    { <<"Data Scientist", "Software Engineer", "Machine Learning Engineer">>,
      <<"Machine Learning Engineer", "Data Scientist", "Software Developer">>,
      <<"ML Ops", "Data Scientist", "Data Scientist">> }

ResumeCatalogue ==
    { <<>>,
      <<"Python", "SQL", "Git">> }

InitAnalyze ==
    /\ pc = "start"
    /\ job_postings \in UNION {[1..n -> PostingCatalogue] : n \in 0..MaxPostings}
    /\ job_roles \in RolesCatalogue
    /\ resume_skills \in ResumeCatalogue
    /\ jobs_by_role = <<>>
    /\ extract_calls = [p \in DOMAIN job_postings |-> 0]
    /\ write_calls = [p \in DOMAIN job_postings |-> 0]
    /\ calls = 0
    /\ ret = NoRet
    /\ IdleOther
    /\ IdleNormalize /\ IdleMatch /\ IdleFind /\ IdlePct /\ IdleParser

\* the field constraints ge=0.0, le=100.0 of RoleSkillAnalysis and
\* SkillGapAnalysis, on values in tenths
InRange(tenths) == 0 <= tenths /\ tenths <= 1000

\* the loop of lines 64-71 analysing every role, also one without postings
analysed_roles_All(roles, groups) == roles

\* the roles the loop of lines 64-71 analyses: those with a non-empty
\* jobs_by_role entry, in job_roles order
analysed_roles(roles, groups) ==
    SelectSeq(roles, LAMBDA role : groups[role] # <<>>)

\* avg_match without the division by len(role_analyses)
market_readiness_NoDivide(percentages) ==
    IF percentages = <<>> THEN {0}
    ELSE RoundTenthsOfFloat(Sum(percentages), 10)

\* round(avg_match, 1) of lines 95 and 110, in tenths, from the roles'
\* match_percentage in tenths
market_readiness(percentages) ==
    IF percentages = <<>> THEN {0}
    ELSE RoundTenthsOfFloat(Sum(percentages), 10 * Len(percentages))

\* the k-th arrangement of xs (k read in the factorial number system)
RECURSIVE Permutation(_, _)
Permutation(xs, k) ==
    IF xs = <<>> THEN <<>>
    ELSE Let((k % Len(xs)) + 1, LAMBDA i :
             <<xs[i]>> \o
             Permutation(SubSeq(xs, 1, i - 1) \o SubSeq(xs, i + 1, Len(xs)),
                         k \div Len(xs)))

\* list(set(xs)) keeping the order of first occurrence
ListOfSet_Ordered(xs) == Dedupe(xs)

\* list(set(xs)): the distinct strings of xs in the iteration order of a
\* set of str, which is fixed by the hash seed of the process and can be
\* any arrangement
ListOfSet(xs) == Permutation(Dedupe(xs), hash_seed)

\* the loop shared by _identify_quick_wins and _identify_long_term_goals:
\* the names of all gaps of all roles, and found_in_jobs_count summed per
\* normalized name
all_missing_with_frequency(role_analyses) ==
    Let(Flatten([a \in DOMAIN role_analyses |->
                    role_analyses[a].missing_skills]),
        LAMBDA gaps :
    Let(List([i \in DOMAIN gaps |-> normalize_skill(gaps[i].skill_name)]),
        LAMBDA norms :
        [all_missing |-> List([i \in DOMAIN gaps |-> gaps[i].skill_name]),
         skill_frequency |->
             [key \in Range(norms) |->
                 Sum(List([i \in DOMAIN gaps |->
                              IF norms[i] = key
                              THEN gaps[i].found_in_jobs_count ELSE 0]))]]))

\* _identify_quick_wins
analyzer_identify_quick_wins(role_analyses) ==
    Let(all_missing_with_frequency(role_analyses), LAMBDA m :
        Prefix(ListOfSet(identify_quick_wins(m.all_missing,
                                             m.skill_frequency)), 8))

\* _identify_long_term_goals
analyzer_identify_long_term_goals(role_analyses) ==
    Let(all_missing_with_frequency(role_analyses), LAMBDA m :
        Prefix(ListOfSet(identify_long_term_goals(m.all_missing,
                                                  m.skill_frequency)), 8))

\* _identify_niche_skills without the early return for fewer than 2 roles
identify_niche_skills_AnyRoles(role_analyses) ==
    Let(List([a \in DOMAIN role_analyses |->
            List([i \in DOMAIN role_analyses[a].missing_skills |->
                normalize_skill(role_analyses[a].missing_skills[i].skill_name)])]),
        LAMBDA norms_by_role :
    Let(Dedupe(Flatten(norms_by_role)), LAMBDA keys :
    Let(SelectSeq(keys, LAMBDA key :
            Cardinality({a \in DOMAIN norms_by_role :
                            key \in Range(norms_by_role[a])}) = 1),
        LAMBDA single :
        Prefix(List([k \in DOMAIN single |->
            Let(CHOOSE a \in DOMAIN norms_by_role :
                    single[k] \in Range(norms_by_role[a]),
                LAMBDA a :
            Let(CHOOSE i \in DOMAIN norms_by_role[a] :
                    /\ norms_by_role[a][i] = single[k]
                    /\ \A i2 \in DOMAIN norms_by_role[a] :
                           norms_by_role[a][i2] = single[k] => i2 <= i,
                LAMBDA i : role_analyses[a].missing_skills[i].skill_name))]),
            10))))

\* _identify_niche_skills: the names, one per normalized key (the last gap
\* of the first role holding the key), of the keys missing in exactly one
\* role, in the order the keys first occur
identify_niche_skills(role_analyses) ==
    IF Len(role_analyses) < 2 THEN <<>>
    ELSE identify_niche_skills_AnyRoles(role_analyses)

\* _generate_action_plans
generate_action_plans(common_gaps, quick_wins, long_term) ==
    [immediate_actions |->
         List([k \in DOMAIN Prefix(quick_wins, 3) |->
                  "Start learning " \o quick_wins[k] \o " (quick win)"])
         \o (IF common_gaps # <<>>
             THEN <<"Research " \o common_gaps[1] \o " fundamentals">>
             ELSE <<>>)
         \o <<"Update resume with recent projects highlighting existing skills">>,
     one_month_plan |->
         List([k \in DOMAIN SubSeq(quick_wins, 4, Len(Prefix(quick_wins, 6))) |->
                  "Complete " \o quick_wins[k + 3] \o " tutorial/certification"])
         \o (IF Len(common_gaps) > 1
             THEN <<"Begin structured course on " \o common_gaps[2]>>
             ELSE <<>>)
         \o <<"Build small project using newly learned skills">>,
     three_month_plan |->
         List([k \in DOMAIN Prefix(common_gaps, 2) |->
                  "Achieve proficiency in " \o common_gaps[k]])
         \o (IF long_term # <<>>
             THEN <<"Start learning " \o long_term[1] \o " (long-term goal)">>
             ELSE <<>>)
         \o <<"Contribute to open-source projects showcasing new skills",
              "Apply to 2-3 stretch roles to gauge market response">>,
     six_month_plan |->
         List([k \in DOMAIN Prefix(long_term, 2) |->
                  "Develop intermediate skills in " \o long_term[k]])
         \o <<"Complete comprehensive portfolio project",
              "Network with professionals in target roles",
              "Apply to target positions with confidence">>]

\* analyze() from Step 2 on (lines 47-118), on postings whose skills have
\* been extracted: its local jobs_by_role and the values it can return
analyze_extracted(resume, extracted, roles) ==
    Let(group_jobs_by_role(extracted, roles), LAMBDA groups :
    Let(analysed_roles(roles, groups), LAMBDA present :
    Let(List([k \in DOMAIN present |->
            analyze_role(present[k], resume,
                         List([j \in DOMAIN groups[present[k]] |->
                                  extracted[groups[present[k]][j]]]))]),
        LAMBDA role_analyses :
    Let(find_common_gaps(role_analyses), LAMBDA common_gaps :
    Let(analyze_skill_trends(
            Flatten([p \in DOMAIN extracted |-> extracted[p].required_skills]),
            resume),
        LAMBDA trends :
    Let(analyzer_identify_quick_wins(role_analyses), LAMBDA quick_wins :
    Let(analyzer_identify_long_term_goals(role_analyses), LAMBDA long_term :
    Let(generate_action_plans(common_gaps, quick_wins, long_term),
        LAMBDA plans :
    Let(List([k \in DOMAIN role_analyses |->
                 role_analyses[k].match_percentage]),
        LAMBDA percentages :
        [jobs_by_role |-> groups,
         returns |->
             {IF /\ \A k \in DOMAIN percentages : InRange(percentages[k])
                 /\ InRange(readiness)
              THEN [kind |-> "analysis",
                    role_analyses |-> role_analyses,
                    common_gaps |-> common_gaps,
                    quick_wins |-> quick_wins,
                    long_term_goals |-> long_term,
                    niche_skills |-> identify_niche_skills(role_analyses),
                    immediate_actions |-> plans.immediate_actions,
                    one_month_plan |-> plans.one_month_plan,
                    three_month_plan |-> plans.three_month_plan,
                    six_month_plan |-> plans.six_month_plan,
                    trending_skills |-> trends.trending,
                    declining_skills |-> trends.declining,
                    overall_market_readiness |-> readiness,
                    total_jobs_analyzed |-> Len(extracted)]
              ELSE [kind |-> "raised", error |-> "ValidationError"] :
                  readiness \in market_readiness(percentages)}])))))))))

\* analyze(resume_skills, job_postings, job_roles): the postings as it leaves
\* them, its local jobs_by_role and the values it can return
analyze(resume, postings, roles) ==
    Let(List([p \in DOMAIN postings |-> ExtractOne(postings[p])]),
        LAMBDA extracted :
    Let(List([p \in DOMAIN postings |->
                 IF postings[p].required_skills = <<>> THEN 1 ELSE 0]),
        LAMBDA ran :
    Let(analyze_extracted(resume, extracted, roles), LAMBDA rest :
        [job_postings |-> extracted,
         extracted_now |-> ran,
         jobs_by_role |-> rest.jobs_by_role,
         returns |-> rest.returns])))

Analyze ==
    /\ calls < MaxCalls
    /\ \E out \in {analyze(resume_skills, job_postings, job_roles)} :
          /\ job_postings' = out.job_postings
          /\ extract_calls' = [p \in DOMAIN job_postings |->
                                  extract_calls[p] + out.extracted_now[p]]
          /\ write_calls' = [p \in DOMAIN job_postings |->
                                write_calls[p] + out.extracted_now[p]]
          /\ jobs_by_role' = out.jobs_by_role
          /\ ret' \in out.returns
    /\ calls' = calls + 1
    /\ pc' = "returned"
    /\ UNCHANGED <<resume_skills, job_roles, normalizeVars, matchVars,
                   findVars, pctVars, parserVars, otherVars>>

NextAnalyze == Analyze

SpecAnalyze == InitAnalyze /\ [][NextAnalyze]_vars

\* analyze() on a resume listing obsolete technologies
TrendResumeCatalogue ==
    { <<"SQL", "Perl", "Flash", "Git", "XML", "SOAP", "jQuery">>,
      <<"jQuery", "Python">> }

InitTrends ==
    /\ pc = "start"
    /\ job_postings \in
          UNION {[1..n -> PostingCatalogue] : n \in 0..MaxTrendPostings}
    /\ job_roles \in RolesCatalogue
    /\ resume_skills \in TrendResumeCatalogue
    /\ jobs_by_role = <<>>
    /\ extract_calls = [p \in DOMAIN job_postings |-> 0]
    /\ write_calls = [p \in DOMAIN job_postings |-> 0]
    /\ calls = 0
    /\ ret = NoRet
    /\ IdleOther
    /\ IdleNormalize /\ IdleMatch /\ IdleFind /\ IdlePct /\ IdleParser

SpecTrends == InitTrends /\ [][NextAnalyze]_vars

\* the role names under which jobs_by_role holds posting p
Holders(p) ==
    {role \in DOMAIN jobs_by_role :
        \E k \in DOMAIN jobs_by_role[role] : jobs_by_role[role][k] = p}

\* the positions in job_roles of the roles having a word longer than 3
\* characters that occurs, case-insensitively, in the title of posting p
Qualifying(p) ==
    {r \in DOMAIN job_roles :
        RoleMatchesTitle(job_roles[r], job_postings[p].title)}

\* C6: every posting is held by at most one role, the first role in
\* job_roles order with a title word longer than 3 characters occurring in
\* the posting title; a posting no role qualifies for is held by no role and
\* counted in no role's jobs_analyzed.
C6_FirstQualifyingRole ==
    ret.kind = "analysis" =>
        /\ \A p \in DOMAIN job_postings :
              /\ Cardinality(Holders(p)) <= 1
              /\ Qualifying(p) = {} => Holders(p) = {}
              /\ Qualifying(p) # {} =>
                    Holders(p) = {job_roles[CHOOSE r \in Qualifying(p) :
                                      \A r2 \in Qualifying(p) : r <= r2]}
        /\ \A k \in DOMAIN ret.role_analyses :
              ret.role_analyses[k].jobs_analyzed =
                  Cardinality({p \in DOMAIN job_postings :
                                  ret.role_analyses[k].job_role \in Holders(p)})

C6_Witness ==
    /\ ret.kind = "analysis"
    /\ \E p \in DOMAIN job_postings :
          \E r1, r2 \in Qualifying(p) : job_roles[r1] # job_roles[r2]
    /\ \E p \in DOMAIN job_postings : Qualifying(p) = {}

\* C7: analyze() returns without raising, and role_analyses has an entry
\* for a role of job_roles exactly when a posting was assigned to the role,
\* in job_roles order.
C7_RolesWithPostings ==
    pc = "returned" =>
        /\ ret.kind = "analysis"
        /\ [k \in DOMAIN ret.role_analyses |-> ret.role_analyses[k].job_role]
               = SelectSeq(job_roles,
                           LAMBDA role : \E p \in DOMAIN job_postings :
                                             role \in Holders(p))

C7_Witness ==
    /\ ret.kind = "analysis"
    /\ ret.role_analyses # <<>>
    /\ \E r \in DOMAIN job_roles :
          \A p \in DOMAIN job_postings : job_roles[r] \notin Holders(p)

\* C8: overall_market_readiness is the mean of the roles' match_percentage
\* rounded to one decimal (within half a tenth of the mean), 0 without
\* roles, and within [0, 100].
C8_MarketReadiness ==
    ret.kind = "analysis" =>
        LET n == Len(ret.role_analyses)
            total == Sum([k \in DOMAIN ret.role_analyses |->
                             ret.role_analyses[k].match_percentage])
            diff == n * ret.overall_market_readiness - total
        IN  /\ n = 0 => ret.overall_market_readiness = 0
            /\ n > 0 => (2 * diff <= n /\ -2 * diff <= n)
            /\ ret.overall_market_readiness >= 0
            /\ ret.overall_market_readiness <= 1000

C8_Witness ==
    /\ ret.kind = "analysis"
    /\ \E k1, k2 \in DOMAIN ret.role_analyses :
          ret.role_analyses[k1].match_percentage
              # ret.role_analyses[k2].match_percentage

\* C9: over any sequence of analyze() calls, extraction runs on a posting
\* at most once and its required_skills is written at most once; a posting
\* with non-empty required_skills is not extracted again and keeps it.
C9_ExtractAtMostOnce ==
    [][\A p \in DOMAIN job_postings :
          /\ extract_calls'[p] <= 1
          /\ write_calls'[p] <= 1
          /\ job_postings[p].required_skills # <<>> =>
                /\ extract_calls'[p] = extract_calls[p]
                /\ job_postings'[p].required_skills
                       = job_postings[p].required_skills]_vars

\* the normalized keys of the missing skills of one role analysis
MissingKeys(analysis) ==
    {normalize_skill(analysis.missing_skills[i].skill_name) :
        i \in DOMAIN analysis.missing_skills}

\* the normalized keys missing in every role of role_analyses
KeysMissingEverywhere ==
    {key \in UNION {MissingKeys(ret.role_analyses[k]) :
                       k \in DOMAIN ret.role_analyses} :
        \A k \in DOMAIN ret.role_analyses :
            key \in MissingKeys(ret.role_analyses[k])}

InCommonGaps(key) ==
    \E i \in DOMAIN ret.common_gaps : normalize_skill(ret.common_gaps[i]) = key

\* C10 as stated: a key missing in every role of role_analyses is the key of
\* a skill in common_gaps.
C10_CommonGapsComplete ==
    ret.kind = "analysis" =>
        \A key \in KeysMissingEverywhere : InCommonGaps(key)

\* C10 amended: a key missing in every role of role_analyses is the key of a
\* skill in common_gaps, unless common_gaps holds its cap of 10 skills.
C10_CommonGapsUpToCap ==
    ret.kind = "analysis" =>
        \/ Len(ret.common_gaps) = 10
        \/ \A key \in KeysMissingEverywhere : InCommonGaps(key)

C10_Witness ==
    /\ ret.kind = "analysis"
    /\ Len(ret.role_analyses) = 3
    /\ "docker" \in KeysMissingEverywhere
    /\ InCommonGaps("docker")
    /\ Len(ret.common_gaps) < 10

\* the resume positions whose skill is on the obsolete list and whose
\* normalized key occurs in no posting's required_skills
ObsoleteUnmentioned ==
    {i \in DOMAIN resume_skills :
        /\ normalize_skill(resume_skills[i]) \in outdated_keywords
        /\ \A p \in DOMAIN job_postings :
               \A k \in DOMAIN job_postings[p].required_skills :
                   normalize_skill(job_postings[p].required_skills[k])
                       # normalize_skill(resume_skills[i])}

\* the resume positions before i whose skill is on the obsolete list or
\* occurs in no posting's required_skills
DecliningBefore(i) ==
    {i2 \in 1..(i - 1) :
        \/ normalize_skill(resume_skills[i2]) \in outdated_keywords
        \/ \A p \in DOMAIN job_postings :
               \A k \in DOMAIN job_postings[p].required_skills :
                   normalize_skill(job_postings[p].required_skills[k])
                       # normalize_skill(resume_skills[i2])}

\* C11 as stated: every resume skill on the obsolete list with zero mentions
\* in the postings' required_skills is in declining_skills.
C11_ObsoleteDeclining ==
    ret.kind = "analysis" =>
        \A i \in ObsoleteUnmentioned :
            resume_skills[i] \in Range(ret.declining_skills)

\* C11 amended: every resume skill on the obsolete list with zero mentions is
\* in declining_skills when fewer than five resume skills before it are
\* obsolete or unmentioned (declining_skills keeps the first five).
C11_ObsoleteDecliningUpToCap ==
    ret.kind = "analysis" =>
        \A i \in ObsoleteUnmentioned :
            Cardinality(DecliningBefore(i)) < 5 =>
                resume_skills[i] \in Range(ret.declining_skills)

C11_Witness ==
    /\ ret.kind = "analysis"
    /\ \E i \in ObsoleteUnmentioned :
          /\ resume_skills[i] = "jQuery"
          /\ Cardinality(DecliningBefore(i)) = 4
          /\ "jQuery" \in Range(ret.declining_skills)

-----------------------------------------------------------------------------
(* segment_by_sections on a list of extracted lines *)

LineCatalogue ==
    { [text |-> "EXPERIENCE", font_size |-> 100, bold |-> TRUE],
      [text |-> "Work Experience", font_size |-> 110, bold |-> TRUE],
      [text |-> "Education", font_size |-> 120, bold |-> FALSE],
      [text |-> "Skills", font_size |-> 100, bold |-> FALSE],
      [text |-> "Built APIs", font_size |-> 110, bold |-> FALSE],
      [text |-> "", font_size |-> 100, bold |-> FALSE] }

InitSegment ==
    /\ pc = "start"
    /\ lines \in UNION {[1..n -> LineCatalogue] : n \in 0..MaxLines}
    /\ pages = <<>>
    /\ ret = NoRet
    /\ IdleOther
    /\ resume_skills = <<>>
    /\ IdleNormalize /\ IdleMatch /\ IdleFind /\ IdlePct /\ IdleAnalyze

Segment ==
    /\ pc = "start"
    /\ ret' = [kind |-> "sections", sections |-> segment_by_sections(lines)]
    /\ pc' = "done"
    /\ UNCHANGED <<resume_skills, normalizeVars, matchVars, findVars,
                   pctVars, analyzeVars, parserVars, otherVars>>

NextSegment == Segment

SpecSegment == InitSegment /\ [][NextSegment]_vars

\* line i is a section header: it classifies and is bold or at least 10.5pt
IsHeader(i) ==
    /\ lines[i].text # ""
    /\ classify_section(lines[i].text) # None
    /\ (lines[i].bold \/ lines[i].font_size >= 105)

\* the positions of the non-empty, non-header lines whose nearest preceding
\* header has tag T
ContentOf(T) ==
    {i \in DOMAIN lines :
        /\ lines[i].text # ""
        /\ ~IsHeader(i)
        /\ \E h \in 1..(i - 1) :
               /\ IsHeader(h)
               /\ classify_section(lines[h].text) = T
               /\ \A h2 \in (h + 1)..(i - 1) : ~IsHeader(h2)}

\* C18: the mapping holds, for each tag T, the in-order list of all non-empty
\* non-header lines whose nearest preceding header has tag T, and no entry
\* for a tag without such lines.
C18_SectionsHoldAllLines ==
    ret.kind = "sections" =>
        /\ DOMAIN ret.sections =
               {SECTION_KEYWORDS[t][1] : t \in DOMAIN SECTION_KEYWORDS}
                   \cap {T \in {SECTION_KEYWORDS[t][1] :
                                    t \in DOMAIN SECTION_KEYWORDS} :
                             ContentOf(T) # {}}
        /\ \A T \in DOMAIN ret.sections :
              ret.sections[T] =
                  [k \in DOMAIN SelectSeq([i \in DOMAIN lines |-> i],
                                          LAMBDA i : i \in ContentOf(T)) |->
                      lines[SelectSeq([i \in DOMAIN lines |-> i],
                                      LAMBDA i : i \in ContentOf(T))[k]].text]

-----------------------------------------------------------------------------
(* parse_skills_section on the lines of a skills section *)

SkillLineCatalogue ==
    { "* Python, SQL", "Languages: Python, Go", "- Docker", "Go", "",
      "Tools: C, , R" }

InitSkills ==
    /\ pc = "start"
    /\ lines \in UNION {[1..n -> SkillLineCatalogue] : n \in 0..MaxLines}
    /\ pages = <<>>
    /\ ret = NoRet
    /\ IdleOther
    /\ resume_skills = <<>>
    /\ IdleNormalize /\ IdleMatch /\ IdleFind /\ IdlePct /\ IdleAnalyze

ParseSkills ==
    /\ pc = "start"
    /\ ret' = [kind |-> "skills", skills |-> parse_skills_section(lines)]
    /\ pc' = "done"
    /\ UNCHANGED <<resume_skills, normalizeVars, matchVars, findVars,
                   pctVars, analyzeVars, parserVars, otherVars>>

NextSkills == ParseSkills

SpecSkills == InitSkills /\ [][NextSkills]_vars

\* C17: the skills list holds no string twice (its order is the order of
\* first discovery).
C17_SkillsUnique ==
    ret.kind = "skills" =>
        \A i, j \in DOMAIN ret.skills :
            ret.skills[i] = ret.skills[j] => i = j

-----------------------------------------------------------------------------
(* parse_experience_section on one Format 2 header line and its bullets *)

HeaderCatalogue ==
    { [position |-> "Engineer", company |-> "Acme", location |-> "NYC",
       duration |-> "Jan 2020 - Present"],
      [position |-> "Data Analyst", company |-> "Globex Inc", location |-> "",
       duration |-> "Mar 2019 - Apr 2020"] }

\* 'Position | Company | Location  Date'
HeaderLine(h) ==
    h.position \o " | " \o h.company \o " | " \o h.location \o "  "
        \o h.duration

BodyCatalogue == {"* built things", "- led team", "that scale", "  to millions"}

InitVariantB ==
    /\ pc = "start"
    /\ \E h \in HeaderCatalogue :
       \E body \in UNION {[1..n -> BodyCatalogue] : n \in 0..MaxBody} :
           lines = <<HeaderLine(h)>> \o body
    /\ pages = <<>>
    /\ ret = NoRet
    /\ IdleOther
    /\ resume_skills = <<>>
    /\ IdleNormalize /\ IdleMatch /\ IdleFind /\ IdlePct /\ IdleAnalyze

ParseExperience ==
    /\ pc = "start"
    /\ ret' = [kind |-> "experience",
               experiences |-> parse_experience_section(lines)]
    /\ pc' = "done"
    /\ UNCHANGED <<resume_skills, normalizeVars, matchVars, findVars,
                   pctVars, analyzeVars, parserVars, otherVars>>

NextExperience == ParseExperience

SpecVariantB == InitVariantB /\ [][NextExperience]_vars

\* the text of the continuation lines from line c up to the next bullet
\* line, each preceded by one space
RECURSIVE ContinuationText(_)
ContinuationText(c) ==
    IF c > Len(lines) \/ IsBulletLine(Strip(Chars(lines[c]))) THEN ""
    ELSE " " \o Join(Strip(Chars(lines[c]))) \o ContinuationText(c + 1)

\* the positions of the bullet lines, in order
BulletLines ==
    SelectSeq([i \in DOMAIN lines |-> i],
              LAMBDA i : IsBulletLine(Strip(Chars(lines[i]))))

-----------------------------------------------------------------------------
(* parse_experience_section and parse_education_section on section lines *)

ExperienceLineCatalogue ==
    { "Engineer | Acme | NYC  Jan 2020 - Present",
      "Engineer | Acme | NYC  Jan 2020 ~ Present",
      "Engineer | Acme | NYC  Jan 2020 ^ Present",
      "Engineer |  | NYC  Jan 2020 - Present",
      "Acme Corp Jan 2020 - Present",
      "Acme Corp Jan 2020 ~ Present",
      "Jan 2020 - Present",
      "EngineerBoston, MA",
      "* built things" }

EducationLineCatalogue ==
    { "BS in Computer Science | MIT - Cambridge, MA  Sep 2015 - Jun 2019",
      " | MIT 2019",
      "MIT - Cambridge, MA Sep 2015 - Jun 2019",
      "BS in Computer Science",
      ", Physics",
      "* GPA 3.9",
      "" }

InitEntries ==
    /\ pc = "start"
    /\ lines \in
          UNION {[1..n -> ExperienceLineCatalogue] : n \in 0..MaxEntryLines}
              \cup
          UNION {[1..n -> EducationLineCatalogue] : n \in 0..MaxEntryLines}
    /\ pages = <<>>
    /\ ret = NoRet
    /\ IdleOther
    /\ resume_skills = <<>>
    /\ IdleNormalize /\ IdleMatch /\ IdleFind /\ IdlePct /\ IdleAnalyze

ParseEducation ==
    /\ pc = "start"
    /\ ret' = [kind |-> "education",
               educations |-> parse_education_section(lines)]
    /\ pc' = "done"
    /\ UNCHANGED <<resume_skills, normalizeVars, matchVars, findVars,
                   pctVars, analyzeVars, parserVars, otherVars>>

NextEntries == ParseExperience \/ ParseEducation

SpecEntries == InitEntries /\ [][NextEntries]_vars

\* C16: every returned Experience has a non-empty company and position, and
\* every returned Education a non-empty institution and degree.
C16_MandatoryFields ==
    /\ ret.kind = "experience" =>
           \A k \in DOMAIN ret.experiences :
               ret.experiences[k].company # ""
                   /\ ret.experiences[k].position # ""
    /\ ret.kind = "education" =>
           \A k \in DOMAIN ret.educations :
               ret.educations[k].institution # ""
                   /\ ret.educations[k].degree # ""

\* an entry is returned and a candidate with a date but no company is not
C16_Witness ==
    /\ ret.kind = "experience"
    /\ lines = <<"Acme Corp Jan 2020 - Present", "EngineerBoston, MA",
                 "Jan 2020 - Present">>
    /\ Len(ret.experiences) = 1
    /\ ret.experiences[1].company = "Acme Corp"

\* the lines with every en dash and em dash written as an ASCII hyphen
Hyphenated(ls) ==
    [k \in DOMAIN ls |->
        Join([c \in DOMAIN Chars(ls[k]) |->
                 IF Chars(ls[k])[c] \in {EN_DASH, EM_DASH} THEN "-"
                 ELSE Chars(ls[k])[c]])]

\* C19: lines whose date ranges are written with an en dash or an em dash
\* give the same entries (company, position, location, hyphenated duration)
\* as the same lines written with ASCII hyphens.
C19_DashesAsHyphens ==
    ret.kind = "experience" =>
        ret.experiences = parse_experience_section(Hyphenated(lines))

-----------------------------------------------------------------------------
(* extract_with_layout on the glyphs of a document of up to two pages *)

GlyphCatalogue ==
    { [text |-> "A", top |-> 0, size |-> 120, fontname |-> "Arial-BoldMT"],
      [text |-> "b", top |-> 2, size |-> 100, fontname |-> "Helvetica"],
      [text |-> " ", top |-> 3, size |-> 100, fontname |-> "Helvetica"],
      [text |-> "c", top |-> 4, size |-> 110, fontname |-> "Times-Bd"],
      [text |-> "d", top |-> 20, size |-> 100, fontname |-> "Helvetica"] }

InitLayout ==
    /\ pc = "start"
    /\ \E chars \in UNION {[1..n -> GlyphCatalogue] : n \in 0..MaxGlyphs} :
          \/ pages = <<chars>>
          \/ \E k \in 0..Len(chars) :
                 pages = <<SubSeq(chars, 1, k), SubSeq(chars, k + 1, Len(chars))>>
    /\ lines = <<>>
    /\ ret = NoRet
    /\ IdleOther
    /\ resume_skills = <<>>
    /\ IdleNormalize /\ IdleMatch /\ IdleFind /\ IdlePct /\ IdleAnalyze

ExtractWithLayout ==
    /\ pc = "start"
    /\ ret' = [kind |-> "layout",
               all_lines |-> extract_with_layout(pages),
               line_chars |-> line_groups(pages)]
    /\ pc' = "done"
    /\ UNCHANGED <<resume_skills, normalizeVars, matchVars, findVars,
                   pctVars, analyzeVars, parserVars, otherVars>>

NextLayout == ExtractWithLayout

SpecLayout == InitLayout /\ [][NextLayout]_vars

\* every glyph of every page is in exactly one line, in document order
LinesPartitionGlyphs ==
    /\ \A k \in DOMAIN ret.line_chars :
           /\ ret.line_chars[k].page \in DOMAIN pages
           /\ 1 <= ret.line_chars[k].first
           /\ ret.line_chars[k].first <= ret.line_chars[k].last
           /\ ret.line_chars[k].last <= Len(pages[ret.line_chars[k].page])
    /\ \A p \in DOMAIN pages : \A i \in DOMAIN pages[p] :
           \E k \in DOMAIN ret.line_chars :
               /\ ret.line_chars[k].page = p
               /\ ret.line_chars[k].first <= i /\ i <= ret.line_chars[k].last
               /\ \A k2 \in DOMAIN ret.line_chars :
                      (/\ ret.line_chars[k2].page = p
                       /\ ret.line_chars[k2].first <= i
                       /\ i <= ret.line_chars[k2].last) => k2 = k
    /\ \A k \in DOMAIN ret.line_chars : \A k2 \in DOMAIN ret.line_chars :
           k < k2 =>
               \/ ret.line_chars[k].page < ret.line_chars[k2].page
               \/ /\ ret.line_chars[k].page = ret.line_chars[k2].page
                  /\ ret.line_chars[k].last < ret.line_chars[k2].first

\* each output line has the font size and bold flag of its first glyph
LinesTakeFirstGlyph ==
    /\ Len(ret.all_lines) = Len(ret.line_chars)
    /\ \A k \in DOMAIN ret.line_chars :
           /\ ret.all_lines[k].font_size =
                  pages[ret.line_chars[k].page][ret.line_chars[k].first].size
           /\ ret.all_lines[k].bold =
                  IsBoldFont(pages[ret.line_chars[k].page]
                                 [ret.line_chars[k].first].fontname)

\* glyphs i and j of page p are in the same line
SameLine(p, i, j) ==
    \E k \in DOMAIN ret.line_chars :
        /\ ret.line_chars[k].page = p
        /\ ret.line_chars[k].first <= i /\ i <= ret.line_chars[k].last
        /\ ret.line_chars[k].first <= j /\ j <= ret.line_chars[k].last

\* C20: within a page two consecutive glyphs are in the same line exactly when
\* their vertical positions differ by at most 3; the lines partition the
\* glyphs in order and take font size and bold flag from their first glyph.
C20_ConsecutiveGlyphs ==
    ret.kind = "layout" =>
        /\ \A p \in DOMAIN pages : \A i \in 1..(Len(pages[p]) - 1) :
               SameLine(p, i, i + 1)
                   <=> Abs(pages[p][i].top - pages[p][i + 1].top) <= 3
        /\ LinesPartitionGlyphs
        /\ LinesTakeFirstGlyph

\* C20 as the code has it: within a page a glyph is in the same line as its
\* predecessor exactly when its vertical position differs by at most 3 from
\* that of the first glyph of the predecessor's line.
C20_AgainstFirstGlyph ==
    ret.kind = "layout" =>
        /\ \A p \in DOMAIN pages : \A i \in 1..(Len(pages[p]) - 1) :
               \A k \in DOMAIN ret.line_chars :
                   (/\ ret.line_chars[k].page = p
                    /\ ret.line_chars[k].first <= i
                    /\ i <= ret.line_chars[k].last) =>
                       (SameLine(p, i, i + 1)
                            <=> Abs(pages[p][i + 1].top
                                      - pages[p][ret.line_chars[k].first].top)
                                    <= 3)
        /\ LinesPartitionGlyphs
        /\ LinesTakeFirstGlyph

\* three glyphs drifting downwards by 2 each: the third starts a new line
C20_Witness ==
    /\ ret.kind = "layout"
    /\ Len(pages) = 1 /\ Len(pages[1]) = 3
    /\ pages[1][1].top = 0 /\ pages[1][2].top = 2 /\ pages[1][3].top = 4
    /\ ret.line_chars = <<[page |-> 1, first |-> 1, last |-> 2],
                          [page |-> 1, first |-> 3, last |-> 3]>>

-----------------------------------------------------------------------------
(* parse() on the extracted lines of a document *)

DocLineCatalogue ==
    { [text |-> "JANE DOE | j@x.io", font_size |-> 140, bold |-> TRUE],
      [text |-> "SKILLS", font_size |-> 120, bold |-> TRUE],
      [text |-> "Python, SQL", font_size |-> 100, bold |-> FALSE],
      [text |-> "EXPERIENCE", font_size |-> 120, bold |-> TRUE],
      [text |-> "Dev | Acme | NY  Jan 2020 - Present", font_size |-> 100,
       bold |-> FALSE],
      [text |-> "* built APIs", font_size |-> 100, bold |-> FALSE],
      [text |-> "EDUCATION", font_size |-> 120, bold |-> TRUE],
      [text |-> "BS in CS | MIT 2019", font_size |-> 100, bold |-> FALSE],
      [text |-> "PROJECTS", font_size |-> 120, bold |-> TRUE] }

InitParse ==
    /\ pc = "start"
    /\ lines \in UNION {[1..n -> DocLineCatalogue] : n \in 0..MaxDocLines}
    /\ pages = <<>>
    /\ ret = NoRet
    /\ IdleOther
    /\ resume_skills = <<>>
    /\ IdleNormalize /\ IdleMatch /\ IdleFind /\ IdlePct /\ IdleAnalyze

Parse ==
    /\ pc = "start"
    /\ ret' = [kind |-> "parsed"] @@ parse(lines)
    /\ pc' = "done"
    /\ UNCHANGED <<resume_skills, normalizeVars, matchVars, findVars,
                   pctVars, analyzeVars, parserVars, otherVars>>

NextParse == Parse

SpecParse == InitParse /\ [][NextParse]_vars

\* C15: parse() completes without raising on every list of extracted lines,
\* a missing section gives an empty value, and a document with no skills
\* content and a non-empty experience section gives skills = [] together
\* with the entries of its experience section.
C15_ParseCompletes ==
    ret.kind = "parsed" =>
        Let(segment_by_sections(lines), LAMBDA sections :
            /\ ~ret.raised
            /\ "skills" \notin DOMAIN sections => ret.skills = <<>>
            /\ "experience" \notin DOMAIN sections => ret.experience = <<>>
            /\ "education" \notin DOMAIN sections => ret.education = <<>>
            /\ "projects" \notin DOMAIN sections => ret.projects = <<>>
            /\ "summary" \notin DOMAIN sections => ret.summary = None
            /\ ("skills" \notin DOMAIN sections
                /\ "experience" \in DOMAIN sections)
                   => /\ ret.skills = <<>>
                      /\ ret.experience =
                             parse_experience_section(sections["experience"]))

\* an empty skills section followed by an experience section with one entry
C15_Witness ==
    /\ ret.kind = "parsed"
    /\ Len(lines) = 3
    /\ lines[1].text = "SKILLS" /\ lines[2].text = "EXPERIENCE"
    /\ lines[3].text = "Dev | Acme | NY  Jan 2020 - Present"
    /\ ~ret.raised
    /\ ret.skills = <<>>
    /\ Len(ret.experience) = 1
    /\ ret.experience[1].company = "Acme"


-----------------------------------------------------------------------------
(* extract_skills on a text of whitespace-separated tokens *)

TokenCatalogue ==
    {"C++", ".NET", "c#", "Git", "go,", "R", "github", "Machine", "Learning"}

InitExtract ==
    /\ pc = "start"
    /\ input_text \in
           {JoinSpace(ts) :
               ts \in UNION {[1..n -> TokenCatalogue] : n \in 0..MaxTokens}}
    /\ ret = NoRet
    /\ resume_skills = <<>>
    /\ IdleNormalize /\ IdleMatch /\ IdleFind /\ IdlePct /\ IdleAnalyze
    /\ IdleParser /\ IdleQuick /\ IdleHash /\ IdleThreads /\ IdleScan

ExtractSkills ==
    /\ pc = "start"
    /\ ret' = [kind |-> "extracted", skills |-> extract_skills(input_text)]
    /\ pc' = "done"
    /\ UNCHANGED <<resume_skills, normalizeVars, matchVars, findVars,
                   pctVars, analyzeVars, parserVars, otherVars>>

NextExtract == ExtractSkills

SpecExtract == InitExtract /\ [][NextExtract]_vars

\* the term stands in the text between whitespace or the ends of the text,
\* in any letter case
Standalone(term, cs) ==
    \E i \in 0..(Len(cs) - Len(term)) :
        /\ Lower(Join(SubSeq(cs, i + 1, i + Len(term)))) = term
        /\ i = 0 \/ IsSpace(cs[i])
        /\ i + Len(term) = Len(cs) \/ IsSpace(cs[i + Len(term) + 1])

\* C21: without the NLP capability extract_skills returns, in alphabetical
\* order and without duplicates, every vocabulary term that stands in the
\* text as a token of its own, and no string outside the vocabulary.
C21_StandaloneTermsExtracted ==
    ret.kind = "extracted" =>
        /\ \A i, j \in DOMAIN ret.skills :
               i < j => StrLess(Chars(ret.skills[i]), Chars(ret.skills[j]))
        /\ \A term \in TECHNICAL_SKILLS \cup SOFT_SKILLS :
               Standalone(term, Chars(input_text)) =>
                   term \in Range(ret.skills)
        /\ Range(ret.skills) \subseteq TECHNICAL_SKILLS \cup SOFT_SKILLS


-----------------------------------------------------------------------------
(* identify_quick_wins on a list of missing skills and a frequency counter *)

MissingCatalogue ==
    {"ci/cd", "Git", "GitHub Actions", "Python", "docker", "Scrum Master"}

CatalogueKeys == {normalize_skill(name) : name \in MissingCatalogue}

FrequencyCatalogue ==
    {[key \in keys |-> freq] :
        keys \in {{}, CatalogueKeys}, freq \in {2, 3}}
    \cup {[key \in CatalogueKeys |-> IF key \in {"git", "cicd"} THEN 4 ELSE 1]}

InitQuickWins ==
    /\ pc = "start"
    /\ missing_skills \in
           UNION {[1..n -> MissingCatalogue] : n \in 0..MaxMissing}
    /\ frequency \in FrequencyCatalogue
    /\ ret = NoRet
    /\ resume_skills = <<>>
    /\ IdleNormalize /\ IdleMatch /\ IdleFind /\ IdlePct /\ IdleAnalyze
    /\ IdleParser /\ IdleExtract /\ IdleHash /\ IdleThreads /\ IdleScan

IdentifyQuickWins ==
    /\ pc = "start"
    /\ ret' = [kind |-> "quick_wins",
               quick_wins |-> identify_quick_wins(missing_skills, frequency)]
    /\ pc' = "done"
    /\ UNCHANGED <<resume_skills, normalizeVars, matchVars, findVars,
                   pctVars, analyzeVars, parserVars, otherVars>>

NextQuickWins == IdentifyQuickWins

SpecQuickWins == InitQuickWins /\ [][NextQuickWins]_vars

\* the number of jobs the counter records for the skill
FrequencyOf(name) == CounterGet(frequency, normalize_skill(name))

\* C22: the quick wins are exactly the missing skills with frequency >= 3
\* whose normalized name contains a tool/methodology keyword; in particular
\* a missing skill that is one of the keywords and has frequency >= 3 is a
\* quick win.
C22_KeywordsAreQuickWins ==
    ret.kind = "quick_wins" =>
        /\ ret.quick_wins =
               SelectSeq(missing_skills, LAMBDA name :
                   /\ FrequencyOf(name) >= 3
                   /\ AnyKeywordIn(tool_keywords, normalize_skill(name)))
        /\ \A i \in DOMAIN missing_skills :
               /\ Lower(missing_skills[i]) \in Range(tool_keywords)
               /\ FrequencyOf(missing_skills[i]) >= 3
               => missing_skills[i] \in Range(ret.quick_wins)


-----------------------------------------------------------------------------
(* analyze() in one Python process and again in a later one: the cross-role *)
(* lists and the action plans                                              *)

PlanPostingCatalogue ==
    { [title |-> "Data Scientist",
       description |-> "",
       required_skills |-> <<"Git", "Docker", "Go">>],
      [title |-> "Software Developer",
       description |-> "",
       required_skills |-> <<"Jira", "Java", "docker">>],
      [title |-> "Machine Learning Engineer",
       description |-> "",
       required_skills |-> <<"Docker", "Python", "AWS", "k8s", "Go", "R",
                             "Spark", "SQL", "TDD", "JWT", "LLM">>] }

PlanRolesCatalogue ==
    { <<"Data Scientist", "Software Developer", "Machine Learning Engineer">>,
      <<"Data Scientist">> }

\* PYTHONHASHSEED of a process, as far as it decides the order of a set
HashSeeds == 0..(MaxSeed - 1)

InitPlans ==
    /\ pc = "start"
    /\ job_postings \in
          UNION {[1..n -> PlanPostingCatalogue] : n \in 0..MaxPlanPostings}
    /\ job_roles \in PlanRolesCatalogue
    /\ resume_skills = <<>>
    /\ hash_seed \in HashSeeds
    /\ jobs_by_role = <<>>
    /\ extract_calls = [p \in DOMAIN job_postings |-> 0]
    /\ write_calls = [p \in DOMAIN job_postings |-> 0]
    /\ calls = 0
    /\ ret = NoRet
    /\ IdleNormalize /\ IdleMatch /\ IdleFind /\ IdlePct /\ IdleParser
    /\ IdleExtract /\ IdleQuick /\ IdleThreads /\ IdleScan

\* the program exits and is started again: the new process has a hash seed
\* of its own; the caller keeps the result of the earlier run and builds
\* the same arguments again
Restart ==
    /\ pc = "returned"
    /\ calls < MaxCalls
    /\ hash_seed' \in HashSeeds
    /\ pc' = "start"
    /\ UNCHANGED <<ret, resume_skills, normalizeVars, matchVars, findVars,
                   pctVars, analyzeVars, parserVars, extractVars, quickVars,
                   threadVars, scanVars>>

NextPlans == Analyze \/ Restart

SpecPlans == InitPlans /\ [][NextPlans]_vars


\* the normalized keys that are missing in exactly one role of role_analyses
KeysMissingInOneRole ==
    {key \in UNION {MissingKeys(ret.role_analyses[k]) :
                       k \in DOMAIN ret.role_analyses} :
        Cardinality({k \in DOMAIN ret.role_analyses :
                        key \in MissingKeys(ret.role_analyses[k])}) = 1}

NicheKeys == {normalize_skill(ret.niche_skills[i]) : i \in DOMAIN ret.niche_skills}

\* C23 as stated: for any number of analysed roles, also one, niche_skills
\* holds only skills whose key is missing in exactly one role, and all of
\* them when they are at most 10.
C23_NicheForAnyRoleCount ==
    ret.kind = "analysis" =>
        /\ NicheKeys \subseteq KeysMissingInOneRole
        /\ Cardinality(KeysMissingInOneRole) <= 10
               => KeysMissingInOneRole \subseteq NicheKeys

\* C23 amended: with at least two analysed roles, niche_skills holds only
\* skills whose key is missing in exactly one role, one skill per key, all
\* of them when they are at most 10 and 10 of them otherwise; with fewer
\* than two analysed roles niche_skills is empty.
C23_NicheOfSeveralRoles ==
    ret.kind = "analysis" =>
        /\ NicheKeys \subseteq KeysMissingInOneRole
        /\ Cardinality(NicheKeys) = Len(ret.niche_skills)
        /\ Len(ret.role_analyses) >= 2 =>
               IF Cardinality(KeysMissingInOneRole) <= 10
               THEN KeysMissingInOneRole \subseteq NicheKeys
               ELSE Len(ret.niche_skills) = 10
        /\ Len(ret.role_analyses) < 2 => ret.niche_skills = <<>>

\* several roles were analysed, some key is missing in more than one of
\* them and left out, and the keys missing in one role only are all listed
C23_Witness ==
    /\ ret.kind = "analysis"
    /\ Len(ret.role_analyses) >= 2
    /\ ret.niche_skills # <<>>
    /\ Cardinality(KeysMissingInOneRole) <= 10
    /\ \E k \in DOMAIN ret.role_analyses :
           ~(MissingKeys(ret.role_analyses[k]) \subseteq KeysMissingInOneRole)


\* C25: two invocations of analyze() with equal resume skills, postings and
\* roles return quick_wins and long_term_goals with the same elements in the
\* same order, and the same four action plans.
C25_SameListsEveryInvocation ==
    [][(/\ ret.kind = "analysis"
        /\ ret'.kind = "analysis"
        /\ calls' = calls + 1
        /\ UNCHANGED <<resume_skills, job_postings, job_roles>>)
       => /\ ret'.quick_wins = ret.quick_wins
          /\ ret'.long_term_goals = ret.long_term_goals
          /\ ret'.immediate_actions = ret.immediate_actions
          /\ ret'.one_month_plan = ret.one_month_plan
          /\ ret'.three_month_plan = ret.three_month_plan
          /\ ret'.six_month_plan = ret.six_month_plan]_vars


-----------------------------------------------------------------------------
(* analyze() on enough postings for skills to be mentioned five times *)

DemandPostingCatalogue ==
    { [title |-> "Data Scientist",
       description |-> "",
       required_skills |-> <<"Docker", "Go", "SQL">>],
      [title |-> "Data Scientist",
       description |-> "",
       required_skills |-> <<"docker", "Python", "AWS", "k8s", "Go", "R",
                             "Spark", "SQL", "TDD", "JWT", "LLM">>] }

DemandResumeCatalogue ==
    { <<>>, <<"Go">>, <<"Python", "AWS", "k8s", "R", "Spark", "TDD">> }

InitDemand ==
    /\ pc = "start"
    /\ job_postings \in
          UNION {[1..n -> DemandPostingCatalogue] :
                    n \in 0..MaxDemandPostings}
    /\ job_roles = <<"Data Scientist">>
    /\ resume_skills \in DemandResumeCatalogue
    /\ jobs_by_role = <<>>
    /\ extract_calls = [p \in DOMAIN job_postings |-> 0]
    /\ write_calls = [p \in DOMAIN job_postings |-> 0]
    /\ calls = 0
    /\ ret = NoRet
    /\ IdleOther
    /\ IdleNormalize /\ IdleMatch /\ IdleFind /\ IdlePct /\ IdleParser

SpecDemand == InitDemand /\ [][NextAnalyze]_vars

\* the normalized keys of the required_skills of all postings, in order of
\* mention
MentionedKeys ==
    Let(Flatten([p \in DOMAIN job_postings |->
                    job_postings[p].required_skills]),
        LAMBDA all_job_skills :
        List([i \in DOMAIN all_job_skills |->
                 normalize_skill(all_job_skills[i])]))

\* what the postings say about each key: how often it is mentioned, where
\* first, and whether a resume skill has the same key
Demand ==
    Let(MentionedKeys, LAMBDA norms :
    Let({normalize_skill(resume_skills[i]) : i \in DOMAIN resume_skills},
        LAMBDA resume_keys :
        [keys |-> Range(norms),
         open |-> Range(norms) \ resume_keys,
         count |-> [key \in Range(norms) |->
                       Cardinality({i \in DOMAIN norms : norms[i] = key})],
         first |-> [key \in Range(norms) |->
                       CHOOSE i \in DOMAIN norms :
                           /\ norms[i] = key
                           /\ \A i2 \in 1..(i - 1) : norms[i2] # key]]))

TrendingKeys ==
    List([i \in DOMAIN ret.trending_skills |->
             normalize_skill(ret.trending_skills[i])])

\* C24 as stated: trending_skills lists the (up to 5) most frequently
\* mentioned skills among those whose key is no resume skill's key, in
\* non-increasing order of frequency.
C24_MostMentionedAreTrending ==
    ret.kind = "analysis" =>
        Let(Demand, LAMBDA d :
        Let(TrendingKeys, LAMBDA t :
            /\ Range(t) \subseteq d.open
            /\ \A i, j \in DOMAIN t :
                   i < j => t[i] # t[j] /\ d.count[t[i]] >= d.count[t[j]]
            /\ Len(t) = IF Cardinality(d.open) < 5 THEN Cardinality(d.open)
                        ELSE 5
            /\ \A key \in d.open \ Range(t) :
                   \A i \in DOMAIN t : d.count[t[i]] >= d.count[key]))

\* key k2 comes before key k in Counter.most_common: more mentions, or as
\* many and mentioned first
RankedBefore(d, k2, k) ==
    \/ d.count[k2] > d.count[k]
    \/ d.count[k2] = d.count[k] /\ d.first[k2] < d.first[k]

\* the keys analyze_skill_trends considers: among the 10 most common keys,
\* mentioned at least 5 times, and no resume skill's key
HotKeys(d) ==
    {key \in d.open :
        /\ d.count[key] >= 5
        /\ Cardinality({k2 \in d.keys : RankedBefore(d, k2, key)}) < 10}

\* C24 amended: trending_skills lists, by the name of their first mention,
\* the (up to 5) most frequently mentioned skills among those that are
\* mentioned at least 5 times, belong to the 10 most mentioned keys and
\* whose key is no resume skill's key, in non-increasing order of frequency
\* (equal frequencies in order of first mention).
C24_TrendingFromFiveMentions ==
    ret.kind = "analysis" =>
        Let(Demand, LAMBDA d :
        Let(TrendingKeys, LAMBDA t :
        Let(HotKeys(d), LAMBDA hot :
            /\ Range(t) \subseteq hot
            /\ \A i, j \in DOMAIN t : i < j => RankedBefore(d, t[i], t[j])
            /\ Len(t) = IF Cardinality(hot) < 5 THEN Cardinality(hot) ELSE 5
            /\ \A key \in hot \ Range(t) :
                   \A i \in DOMAIN t : RankedBefore(d, t[i], key)
            /\ \A i \in DOMAIN t :
                   \E p \in DOMAIN job_postings :
                       \E k \in DOMAIN job_postings[p].required_skills :
                           job_postings[p].required_skills[k]
                               = ret.trending_skills[i])))

\* some skills are trending, while a key mentioned five times is left out
\* for being a resume skill's key and another for being mentioned less
C24_Witness ==
    /\ ret.kind = "analysis"
    /\ ret.trending_skills # <<>>
    /\ Let(Demand, LAMBDA d :
           /\ \E key \in d.keys \ d.open : d.count[key] >= 5
           /\ \E key \in d.open : d.count[key] < 5)


-----------------------------------------------------------------------------
(* _analyze_role: frequencies and match percentage *)

\* the postings of the role that mention a skill with the normalized key
PostingsMentioning(key) ==
    {p \in DOMAIN job_postings :
        \E k \in DOMAIN job_postings[p].required_skills :
            normalize_skill(job_postings[p].required_skills[k]) = key}

\* C28: found_in_jobs_count of every missing skill is the number of the
\* role's postings that mention it, so it lies between 0 and jobs_analyzed.
C28_FrequencyCountsPostings ==
    ret.kind = "role_analysis" =>
        \A i \in DOMAIN ret.missing_skills :
            /\ 0 <= ret.missing_skills[i].found_in_jobs_count
            /\ ret.missing_skills[i].found_in_jobs_count <= ret.jobs_analyzed
            /\ ret.missing_skills[i].found_in_jobs_count =
                   Cardinality(PostingsMentioning(
                       normalize_skill(ret.missing_skills[i].skill_name)))


\* _analyze_role on postings whose skills resemble one another
CoverageSkillsCatalogue ==
    { <<>>,
      <<"Python">>,
      <<"Python", "Python3">>,
      <<"Go", "Python3">> }

InitCoverage ==
    /\ pc = "start"
    /\ \E n \in 1..MaxCoverageJobs :
          \E skills \in [1..n -> CoverageSkillsCatalogue] :
              job_postings = [j \in 1..n |->
                                 [title |-> "Data Scientist",
                                  description |-> "",
                                  required_skills |-> skills[j]]]
    /\ resume_skills \in { <<>>, <<"Python">>, <<"Go", "Python">> }
    /\ job_roles = <<>>
    /\ jobs_by_role = <<>>
    /\ extract_calls = <<>>
    /\ write_calls = <<>>
    /\ calls = 0
    /\ ret = NoRet
    /\ IdleOther
    /\ IdleNormalize /\ IdleMatch /\ IdleFind /\ IdlePct /\ IdleParser

SpecCoverage == InitCoverage /\ [][NextRole]_vars

\* U: the number of unique required skills of the role, by normalized key
UniqueRequired ==
    Cardinality(UNION {
        {normalize_skill(job_postings[p].required_skills[k]) :
            k \in DOMAIN job_postings[p].required_skills} :
        p \in DOMAIN job_postings})

\* C29: match_percentage equals 100 * (U - len(missing_skills)) / U rounded
\* to one decimal, U being the number of unique required skills of the
\* role; so it is 100 whenever missing_skills is empty.
C29_PercentageOfRequiredPresent ==
    ret.kind = "role_analysis" =>
        /\ UniqueRequired > 0 =>
               ret.match_percentage =
                   RoundTenths(100 * (UniqueRequired - Len(ret.missing_skills)),
                               UniqueRequired)
        /\ ret.missing_skills = <<>> => ret.match_percentage = 1000


-----------------------------------------------------------------------------
(* analyze(): postings titled exactly like a recommended role *)

\* C30: a posting whose title equals, case-insensitively, one of job_roles
\* is assigned to that role, so that role is in role_analyses with
\* jobs_analyzed >= 1.
C30_TitledPostingReachesRole ==
    ret.kind = "analysis" =>
        \A p \in DOMAIN job_postings :
            \A r \in DOMAIN job_roles :
                Lower(job_postings[p].title) = Lower(job_roles[r]) =>
                    /\ job_roles[r] \in Holders(p)
                    /\ \E k \in DOMAIN ret.role_analyses :
                           /\ ret.role_analyses[k].job_role = job_roles[r]
                           /\ ret.role_analyses[k].jobs_analyzed >= 1


-----------------------------------------------------------------------------
(* two analyze() invocations running concurrently on the same analyzer and  *)
(* the same JobPosting objects; a step is one access to a shared posting    *)

SharedPostingCatalogue ==
    { [title |-> "Data Scientist",
       description |-> "Python, SQL and Docker required",
       required_skills |-> <<>>],
      [title |-> "Software Engineer",
       description |-> "",
       required_skills |-> <<"Docker", "AWS">>],
      [title |-> "Data Scientist",
       description |-> "friendly person wanted",
       required_skills |-> <<>>] }

Invocations == {1, 2}

\* the position of an invocation that is done with posting p
AfterPosting(p) ==
    IF p >= Len(job_postings) THEN [pc |-> "rest", p |-> 0]
    ELSE [pc |-> "check", p |-> p + 1]

InitThreads ==
    /\ pc = "start"
    /\ job_postings \in
          UNION {[1..n -> SharedPostingCatalogue] : n \in 0..MaxSharedPostings}
    /\ supplied = job_postings
    /\ job_roles = <<"Data Scientist", "Software Engineer">>
    /\ \E resumes \in [Invocations -> ResumeCatalogue] :
          inv = [i \in Invocations |->
                    AfterPosting(0) @@
                    [resume |-> resumes[i], skills |-> <<>>, ret |-> NoRet]]
    /\ resume_skills = <<>>
    /\ jobs_by_role = <<>>
    /\ extract_calls = [p \in DOMAIN job_postings |-> 0]
    /\ write_calls = [p \in DOMAIN job_postings |-> 0]
    /\ calls = 0
    /\ ret = NoRet
    /\ IdleNormalize /\ IdleMatch /\ IdleFind /\ IdlePct /\ IdleParser
    /\ IdleExtract /\ IdleQuick /\ IdleHash /\ IdleScan

\* line 123-124: invocation i tests job.required_skills of its current
\* posting and, finding it empty, extracts the skills of the description
CheckSkills(i) ==
    /\ inv[i].pc = "check"
    /\ IF job_postings[inv[i].p].required_skills = <<>>
       THEN /\ inv' = [inv EXCEPT
                          ![i].pc = "write",
                          ![i].skills =
                              extract_skills(job_postings[inv[i].p].description)]
            /\ extract_calls' = [extract_calls EXCEPT ![inv[i].p] = @ + 1]
       ELSE /\ inv' = [inv EXCEPT ![i].pc = AfterPosting(inv[i].p).pc,
                                  ![i].p = AfterPosting(inv[i].p).p]
            /\ UNCHANGED extract_calls
    /\ UNCHANGED <<pc, ret, resume_skills, job_postings, job_roles,
                   jobs_by_role, write_calls, calls, supplied, normalizeVars,
                   matchVars, findVars, pctVars, parserVars, extractVars,
                   quickVars, hashVars, scanVars>>

\* line 125: invocation i assigns the extracted skills to the posting
WriteSkills(i) ==
    /\ inv[i].pc = "write"
    /\ job_postings' = [job_postings EXCEPT
                           ![inv[i].p] = AssignSkills(@, inv[i].skills)]
    /\ write_calls' = [write_calls EXCEPT ![inv[i].p] = @ + 1]
    /\ inv' = [inv EXCEPT ![i].pc = AfterPosting(inv[i].p).pc,
                          ![i].p = AfterPosting(inv[i].p).p,
                          ![i].skills = <<>>]
    /\ UNCHANGED <<pc, ret, resume_skills, job_roles, jobs_by_role,
                   extract_calls, calls, supplied, normalizeVars, matchVars,
                   findVars, pctVars, parserVars, extractVars, quickVars,
                   hashVars, scanVars>>

\* lines 47-118: invocation i groups the postings, analyses the roles and
\* returns
Complete(i) ==
    /\ inv[i].pc = "rest"
    /\ \E out \in {analyze_extracted(inv[i].resume, job_postings, job_roles)} :
          \E r \in out.returns :
              inv' = [inv EXCEPT ![i].pc = "returned", ![i].ret = r]
    /\ calls' = calls + 1
    /\ UNCHANGED <<pc, ret, resume_skills, job_postings, job_roles,
                   jobs_by_role, extract_calls, write_calls, supplied,
                   normalizeVars, matchVars, findVars, pctVars, parserVars,
                   extractVars, quickVars, hashVars, scanVars>>

NextThreads ==
    \E i \in Invocations : CheckSkills(i) \/ WriteSkills(i) \/ Complete(i)

SpecThreads == InitThreads /\ [][NextThreads]_vars

\* what invocation i does when it runs alone on the supplied postings
Alone(i) == analyze(inv[i].resume, supplied, job_roles)

\* C26: however the steps of two invocations sharing the postings are
\* interleaved, each invocation returns an analysis it returns when run
\* alone, every posting is left with the required_skills of a sequential
\* run, and no posting changes under an invocation that has begun to read
\* the skills.
C26_InvocationsIndependent ==
    /\ [](\A i \in DOMAIN inv :
             inv[i].pc = "returned" /\ calls = Cardinality(Invocations) =>
                 /\ inv[i].ret \in Alone(i).returns
                 /\ job_postings = Alone(i).job_postings)
    /\ [][(\E i \in DOMAIN inv : inv[i].pc \in {"rest", "returned"})
              => job_postings' = job_postings]_vars

\* both invocations found the same posting without skills before either
\* assigned them, both assigned them, and both have returned
C26_Witness ==
    /\ calls = Cardinality(Invocations)
    /\ \E p \in DOMAIN job_postings :
           /\ extract_calls[p] = 2
           /\ write_calls[p] = 2
           /\ job_postings[p].required_skills # <<>>
    /\ \A i \in DOMAIN inv : inv[i].ret.kind = "analysis"


-----------------------------------------------------------------------------
(* parse_experience_section and parse_education_section running through    *)
(* their loops: a step is one iteration of a loop, or the code between the *)
(* end of a bullet loop and the next test of the outer loop                *)

\* more steps than a list of MaxScanLines lines can take
MaxSteps == 4 * (MaxScanLines + 1)

ScanExperienceCatalogue ==
    { "Engineer | Acme | NYC  Jan 2020 - Present",
      "Engineer |  | NYC  Jan 2020 - Present",
      "Engineer |  | Jan 2020",
      "Acme Corp Jan 2020 - Present",
      "* built things",
      "and more",
      "" }

ScanEducationCatalogue ==
    { "BS in Computer Science | MIT - Cambridge, MA  Sep 2015 - Jun 2019",
      "MIT - Cambridge, MA Sep 2015 - Jun 2019",
      "BS in Computer Science",
      "" }

ScanStart(fn) ==
    [fn |-> fn, where |-> "outer", i |-> 1, line |-> <<>>, hdr |-> NoHeader,
     st |-> NoBullets, out |-> <<>>, steps |-> 0]

InitScan ==
    /\ pc = "start"
    /\ \/ /\ lines \in UNION {[1..n -> ScanExperienceCatalogue] :
                                 n \in 0..MaxScanLines}
          /\ scan = ScanStart("experience")
       \/ /\ lines \in UNION {[1..n -> ScanEducationCatalogue] :
                                 n \in 0..MaxScanLines}
          /\ scan = ScanStart("education")
    /\ pages = <<>>
    /\ ret = NoRet
    /\ resume_skills = <<>>
    /\ IdleNormalize /\ IdleMatch /\ IdleFind /\ IdlePct /\ IdleAnalyze
    /\ IdleExtract /\ IdleQuick /\ IdleHash /\ IdleThreads

\* an iteration or exit of a loop is executed and counted
Step(sc) ==
    /\ scan.steps < MaxSteps
    /\ scan' = [sc EXCEPT !.steps = @ + 1]

ScanUnchanged ==
    UNCHANGED <<resume_skills, normalizeVars, matchVars, findVars, pctVars,
                analyzeVars, parserVars, extractVars, quickVars, hashVars,
                threadVars>>

\* an iteration of the outer loop of parse_experience_section
ExperienceOuter ==
    /\ scan.fn = "experience" /\ scan.where = "outer"
    /\ scan.i <= Len(lines)
    /\ Step(ExperienceIteration(lines, scan))
    /\ UNCHANGED <<pc, ret>>
    /\ ScanUnchanged

\* an iteration of the bullet loop of a Format 2 entry
Format2Bullet ==
    /\ scan.where = "bullets2"
    /\ ~BulletLoopEnds(lines, scan.i, TRUE)
    /\ Step(BulletIteration(lines, scan))
    /\ UNCHANGED <<pc, ret>>
    /\ ScanUnchanged

\* the bullet loop of a Format 2 entry ends
Format2BulletsEnd ==
    /\ scan.where = "bullets2"
    /\ BulletLoopEnds(lines, scan.i, TRUE) = TRUE
    /\ Step(AfterFormat2Bullets(lines, scan))
    /\ UNCHANGED <<pc, ret>>
    /\ ScanUnchanged

\* an iteration of the bullet loop of a Format 1 entry
Format1Bullet ==
    /\ scan.where = "bullets1"
    /\ ~BulletLoopEnds(lines, scan.i, FALSE)
    /\ Step(BulletIteration(lines, scan))
    /\ UNCHANGED <<pc, ret>>
    /\ ScanUnchanged

\* the bullet loop of a Format 1 entry ends
Format1BulletsEnd ==
    /\ scan.where = "bullets1"
    /\ BulletLoopEnds(lines, scan.i, FALSE) = TRUE
    /\ Step(AfterFormat1Bullets(lines, scan))
    /\ UNCHANGED <<pc, ret>>
    /\ ScanUnchanged

\* an iteration of the loop of parse_education_section
EducationOuter ==
    /\ scan.fn = "education" /\ scan.where = "outer"
    /\ scan.i <= Len(lines)
    /\ Step(EducationIteration(lines, scan))
    /\ UNCHANGED <<pc, ret>>
    /\ ScanUnchanged

\* the outer loop ends and the function returns
ScanReturn ==
    /\ scan.where = "outer"
    /\ scan.i > Len(lines)
    /\ Step([scan EXCEPT !.where = "done"])
    /\ ret' = IF scan.fn = "experience"
              THEN [kind |-> "experience", experiences |-> scan.out]
              ELSE [kind |-> "education", educations |-> scan.out]
    /\ pc' = "done"
    /\ ScanUnchanged

NextScan ==
    \/ ExperienceOuter
    \/ Format2Bullet
    \/ Format2BulletsEnd
    \/ Format1Bullet
    \/ Format1BulletsEnd
    \/ EducationOuter
    \/ ScanReturn

SpecScan == InitScan /\ [][NextScan]_vars

\* the interpreter keeps executing the function it has entered: weak
\* fairness of NextScan, WF_vars(NextScan), with ENABLED <<NextScan>>_vars
\* written as the state predicate it amounts to (a step is possible until
\* the function has returned or MaxSteps steps are counted)
SpecScanFair ==
    /\ SpecScan
    /\ \/ []<>(scan.where = "done" \/ scan.steps >= MaxSteps)
       \/ []<><<NextScan>>_vars

\* the iterations agree with the functions computed as a whole
ScanAgrees ==
    scan.where = "done" =>
        scan.out = IF scan.fn = "experience"
                   THEN parse_experience_section(lines)
                   ELSE parse_education_section(lines)

\* a loop is left: a bullet loop for the code after it, the outer loop for
\* the return
LoopExit ==
    \/ scan.where \in {"bullets2", "bullets1"} /\ scan'.where # scan.where
    \/ scan.where = "outer" /\ scan'.where = "done"

\* C27: both functions terminate on every line list: every iteration of an
\* outer or inner scanning loop either strictly increases the line index or
\* leaves the loop, the index never decreases, and the function returns.
C27_ScansTerminate ==
    /\ [][(scan'.i > scan.i \/ LoopExit) /\ scan'.i >= scan.i]_vars
    /\ <>(scan.where = "done")

\* parse_experience_section has returned after a pipe entry that was
\* rejected and tried again as Format 1, a bullet and a blank line
C27_Witness ==
    /\ scan.where = "done"
    /\ scan.fn = "experience"
    /\ \E a, b, c \in DOMAIN lines :
           /\ lines[a] = "Engineer |  | NYC  Jan 2020 - Present"
           /\ lines[b] = "* built things"
           /\ lines[c] = ""

====
